---- MODULE Spec2Model ----
(***************************************************************************)
(* State-machine model of the Dataverse CLI: the configuration resolver    *)
(* (src/dataverse_cli/config.py), the client factory with its process-wide *)
(* cache and the HTTP client wrapper (src/dataverse_cli/client.py), the    *)
(* commands built on them (src/dataverse_cli/commands), the process that   *)
(* runs one command (src/dataverse_cli/main.py) and the connector script   *)
(* (src/delete_connector.py).                                              *)
(*                                                                         *)
(* Text is modelled as a sequence of pieces (strings), concatenated with   *)
(* \o in the order the code's f-strings concatenate them.  JSON and Python *)
(* values are tagged records [t |-> type, v |-> payload].                  *)
(***************************************************************************)
EXTENDS Integers, Sequences, FiniteSets, TLC

VARIABLES
    env,          \* the process environment: variable name -> value (fixed per run)
    _config,      \* config.py: global _config (PyNone or a Config record)
    _client,      \* client.py: global _client (PyNone or a DataverseClient record)
    constructed,  \* number of DataverseClient objects constructed so far (object identity)
    wire,         \* what the identity provider and the Dataverse server may answer in this run
    last          \* the last call: its inputs, its result and the network calls it made

vars == <<env, _config, _client, constructed, wire, last>>

---------------------------------------------------------------------------
(* Bounds *)

\* DataverseClient constructions per run (each reset_client allows one more)
MaxClients == 2
\* longest OData-EntityId header value enumerated character by character
MaxHeaderLen == 5

---------------------------------------------------------------------------
(* Python values *)

\* os.getenv() of an unset variable: None in place of a text
Unset == <<"<None>">>
\* None in place of an object
PyNone == [t |-> "None", v |-> 0]

\* truth value of an Optional[str]: None and "" are falsy
Truthy(s) == s # Unset /\ s # <<>>

JObj(f) == [t |-> "object", v |-> f]
JArr(s) == [t |-> "array", v |-> s]
JStr(s) == [t |-> "string", v |-> s]
JNum(n) == [t |-> "number", v |-> n]
PyBool(b) == [t |-> "bool", v |-> b]
ClientRef(c) == [t |-> "DataverseClient", v |-> c.id]

\* dict.get(key, default)
DictGet(d, key, default) == IF key \in DOMAIN d THEN d[key] ELSE default

\* bool(v) of a JSON value
PyTruthy(v) ==
    CASE v.t = "None" -> FALSE
      [] v.t = "object" -> DOMAIN v.v # {}
      [] v.t = "array" -> v.v # <<>>
      [] v.t = "string" -> v.v # <<>>
      [] v.t = "number" -> v.v # 0
      [] v.t = "bool" -> v.v
      [] OTHER -> TRUE

\* sub is a contiguous part of text
Contains(text, sub) ==
    \E i \in 0..(Len(text) - Len(sub)) : SubSeq(text, i + 1, i + Len(sub)) = sub

\* the result of a call: what it returned or raised, and the network calls it made
Return(value, net) ==
    [outcome |-> "return", value |-> value, exc |-> "", msg |-> <<>>, net |-> net]
Raise(exc, msg, net) ==
    [outcome |-> "raise", value |-> PyNone, exc |-> exc, msg |-> msg, net |-> net]

---------------------------------------------------------------------------
(* Configuration resolver: src/dataverse_cli/config.py *)

URL_VAR == "DATAVERSE_URL"
ID_VAR == "DATAVERSE_CLIENT_ID"
SECRET_VAR == "DATAVERSE_CLIENT_SECRET"
TENANT_VAR == "DATAVERSE_TENANT_ID"
USER_VAR == "DATAVERSE_USERNAME"
PASSWORD_VAR == "DATAVERSE_PASSWORD"
TOKEN_VAR == "DATAVERSE_ACCESS_TOKEN"

EnvVars == {URL_VAR, ID_VAR, SECRET_VAR, TENANT_VAR, USER_VAR, PASSWORD_VAR, TOKEN_VAR}

OrgUrl == <<"https://org.crm.dynamics.com">>
OrgUrlSlash == <<"https://org.crm.dynamics.com", "/">>

\* Config.__init__: every field is os.getenv() of its variable, unvalidated
Config(e) ==
    [ dataverse_url |-> e[URL_VAR],
      client_id     |-> e[ID_VAR],
      client_secret |-> e[SECRET_VAR],
      tenant_id     |-> e[TENANT_VAR],
      username      |-> e[USER_VAR],
      password      |-> e[PASSWORD_VAR],
      access_token  |-> e[TOKEN_VAR] ]

has_service_principal_auth(c) ==
    /\ Truthy(c.dataverse_url)
    /\ Truthy(c.client_id)
    /\ Truthy(c.client_secret)
    /\ Truthy(c.tenant_id)

\* faulty variant: the password is not asked for
has_user_auth_NoPassword(c) ==
    /\ Truthy(c.dataverse_url)
    /\ Truthy(c.client_id)
    /\ Truthy(c.tenant_id)
    /\ Truthy(c.username)

has_user_auth(c) ==
    /\ Truthy(c.dataverse_url)
    /\ Truthy(c.client_id)
    /\ Truthy(c.tenant_id)
    /\ Truthy(c.username)
    /\ Truthy(c.password)

has_token_auth(c) == Truthy(c.access_token) /\ Truthy(c.dataverse_url)

\* faulty variant: the token short-circuit also asks for a client id
get_missing_credentials_TokenNeedsId(c) ==
    IF Truthy(c.access_token) /\ Truthy(c.dataverse_url) /\ Truthy(c.client_id)
    THEN <<>>
    ELSE (IF ~Truthy(c.dataverse_url) THEN <<URL_VAR>> ELSE <<>>)
         \o (IF ~Truthy(c.client_id) THEN <<ID_VAR>> ELSE <<>>)
         \o (IF ~Truthy(c.client_secret) THEN <<SECRET_VAR>> ELSE <<>>)
         \o (IF ~Truthy(c.tenant_id) THEN <<TENANT_VAR>> ELSE <<>>)

\* faulty variant: the tenant id is not checked
get_missing_credentials_NoTenant(c) ==
    IF Truthy(c.access_token) /\ Truthy(c.dataverse_url)
    THEN <<>>
    ELSE (IF ~Truthy(c.dataverse_url) THEN <<URL_VAR>> ELSE <<>>)
         \o (IF ~Truthy(c.client_id) THEN <<ID_VAR>> ELSE <<>>)
         \o (IF ~Truthy(c.client_secret) THEN <<SECRET_VAR>> ELSE <<>>)

\* the list of missing variable names (each one piece of text), in the order the code appends them
get_missing_credentials(c) ==
    IF Truthy(c.access_token) /\ Truthy(c.dataverse_url)
    THEN <<>>
    ELSE (IF ~Truthy(c.dataverse_url) THEN <<URL_VAR>> ELSE <<>>)
         \o (IF ~Truthy(c.client_id) THEN <<ID_VAR>> ELSE <<>>)
         \o (IF ~Truthy(c.client_secret) THEN <<SECRET_VAR>> ELSE <<>>)
         \o (IF ~Truthy(c.tenant_id) THEN <<TENANT_VAR>> ELSE <<>>)

\* returns the scope, or raises ValueError when the base URL is absent
get_auth_scope(c) ==
    IF ~Truthy(c.dataverse_url)
    THEN Raise("ValueError", <<"DATAVERSE_URL not configured">>, <<>>)
    ELSE Return(JStr(c.dataverse_url \o <<"/.default">>), <<>>)

\* get_config(): the cached Config, or a new one read from the environment
get_config(cfg, e) == IF cfg = PyNone THEN Config(e) ELSE cfg

---------------------------------------------------------------------------
(* Authenticator: src/dataverse_cli/client.py, lines 151-211 *)

\* a network call as seen on the wire
TokenRequest(grant, c) ==
    [ kind    |-> "token",
      verb    |-> grant,
      url     |-> <<"https://login.microsoftonline.com/">> \o c.tenant_id,
      headers |-> <<>> ]

\* the token the identity provider issues for a grant
IssuedToken(grant) == <<"token issued for ", grant>>

IdpAnswers == {"token", "error_description", "error", "no_error", "exception"}

\* what msal's acquire_token_* hands back for each answer of the identity
\* provider: a result dict, or an exception of msal's own
IdpResult(answer, grant) ==
    CASE answer = "token" ->
           [raised |-> FALSE, exc |-> "", str |-> <<>>,
            result |-> ("access_token" :> IssuedToken(grant))]
      [] answer = "error_description" ->
           [raised |-> FALSE, exc |-> "", str |-> <<>>,
            result |-> ("error" :> <<"invalid_client">>
                        @@ "error_description" :> <<"AADSTS7000215: Invalid client secret">>)]
      [] answer = "error" ->
           [raised |-> FALSE, exc |-> "", str |-> <<>>,
            result |-> ("error" :> <<"invalid_client">>)]
      [] answer = "no_error" ->
           [raised |-> FALSE, exc |-> "", str |-> <<>>, result |-> <<>>]
      [] OTHER ->
           [raised |-> TRUE, exc |-> "ConnectionError",
            str |-> <<"login.microsoftonline.com unreachable">>, result |-> <<>>]

\* faulty variant: the error code is reported even when a description is given
AcquireToken_ErrorCodeFirst(c, grant, answer) ==
    LET scope == get_auth_scope(c)
        req   == <<TokenRequest(grant, c)>>
        r     == IdpResult(answer, grant)
    IN  IF scope.outcome = "raise" THEN scope
        ELSE IF r.raised THEN Raise(r.exc, r.str, req)
        ELSE IF "access_token" \notin DOMAIN r.result
        THEN Raise("ClientError",
                   <<"Failed to acquire token: ">>
                     \o DictGet(r.result, "error", <<"Unknown error">>),
                   req)
        ELSE Return(JStr(r.result["access_token"]), req)

\* lines 171-178 and 200-211: the scope, the exchange, the check of the result
AcquireToken(c, grant, answer) ==
    LET scope == get_auth_scope(c)
        req   == <<TokenRequest(grant, c)>>
        r     == IdpResult(answer, grant)
    IN  IF scope.outcome = "raise" THEN scope
        ELSE IF r.raised THEN Raise(r.exc, r.str, req)
        ELSE IF "access_token" \notin DOMAIN r.result
        THEN Raise("ClientError",
                   <<"Failed to acquire token: ">>
                     \o DictGet(r.result, "error_description",
                                DictGet(r.result, "error", <<"Unknown error">>)),
                   req)
        ELSE Return(JStr(r.result["access_token"]), req)

_get_service_principal_token(c, answer) == AcquireToken(c, "client_credentials", answer)

_get_user_token(c, answer) == AcquireToken(c, "password", answer)

---------------------------------------------------------------------------
(* API client: src/dataverse_cli/client.py, class DataverseClient *)

RECURSIVE rstrip_slash(_)
\* str.rstrip('/')
rstrip_slash(s) ==
    IF s # <<>> /\ s[Len(s)] = "/" THEN rstrip_slash(SubSeq(s, 1, Len(s) - 1)) ELSE s

\* DataverseClient.__init__; id is the identity of the new object
DataverseClient(dataverse_url, access_token, id) ==
    [ id            |-> id,
      dataverse_url |-> rstrip_slash(dataverse_url),
      access_token  |-> access_token,
      api_base      |-> rstrip_slash(dataverse_url) \o <<"/api/data/v9.2">>,
      headers       |-> ( "Authorization"    :> (<<"Bearer ">> \o access_token)
                       @@ "Accept"           :> <<"application/json">>
                       @@ "OData-MaxVersion" :> <<"4.0">>
                       @@ "OData-Version"    :> <<"4.0">> ) ]

\* an HTTP request as seen on the wire: the session's headers go with it
HttpRequest(verb, cl, endpoint, params, data) ==
    [ kind    |-> "http",
      verb    |-> verb,
      url     |-> cl.api_base \o <<"/">> \o endpoint,
      params  |-> params,
      json    |-> data,
      headers |-> cl.headers ]

Digits == <<"0", "1", "2", "3", "4", "5", "6", "7", "8", "9">>

RECURSIVE Str(_)
\* str(n) of a natural number: its decimal digits
Str(n) == IF n < 10 THEN <<Digits[n + 1]>> ELSE Str(n \div 10) \o <<Digits[(n % 10) + 1]>>

\* requests' Response.raise_for_status(): HTTPError for 4xx and 5xx only
raise_for_status(status) == status >= 400 /\ status < 600

\* response bodies
Body_Empty == <<>>
Body_EmptyObject == <<"{}">>
Body_List == <<"{\"value\": [", "{\"a\": 1}", "], \"@odata.count\": 1}">>
Body_ListNoCount == <<"{\"value\": [", "{\"a\": 1}", ", ", "{\"a\": 2}", "]}">>
Body_Record == <<"{\"a\": 1}">>
Body_Error == <<"{\"error\": {\"message\": \"", "Not Found", "\"}}">>
Body_NotJson == <<"<html>", "Bad Gateway", "</html>">>

Bodies == {Body_Empty, Body_EmptyObject, Body_List, Body_ListNoCount, Body_Record,
           Body_Error, Body_NotJson}

\* record sets as the commands read them
Body_NoRecords == <<"{\"value\": []}">>
Body_Joined ==
    <<"{\"value\": [", "{\"solutionid\": \"s1\", \"objectid\": \"w1\", \"workflowid\": \"w1\", \"statecode\": 1}", "]}">>
Body_Components ==
    <<"{\"value\": [", "{\"objectid\": \"w1\"}", ", ", "{\"objectid\": null}", ", ",
      "{\"objectid\": \"w2\"}", "]}">>
Body_ComponentsNoId ==
    <<"{\"value\": [", "{\"solutioncomponentid\": \"c1\"}", ", ", "{\"objectid\": \"\"}", "]}">>
Body_Flows ==
    <<"{\"value\": [", "{\"workflowid\": \"w1\", \"statecode\": 1, \"solutionid\": \"s1\"}", ", ",
      "{\"workflowid\": \"w2\", \"statecode\": 0, \"solutionid\": \"s2\"}", "]}">>


\* the server's refusal to delete a record that another one depends on, in
\* two spellings
Body_Referenced ==
    <<"{\"error\": {\"message\": \"", "The connector is ", "referenced by", " a flow", "\"}}">>
Body_ReferencedCaps ==
    <<"{\"error\": {\"message\": \"", "The connector is ", "Referenced By", " a flow", "\"}}">>

\* Response.json() on the bodies above
ParseJson(text) ==
    CASE text = Body_EmptyObject ->
           [ok |-> TRUE, value |-> JObj(<<>>)]
      [] text \in {Body_Referenced, Body_ReferencedCaps} ->
           [ok |-> TRUE,
            value |-> JObj("error" :> JObj("message" :> JStr(SubSeq(text, 2, 4))))]
      [] text = Body_NoRecords ->
           [ok |-> TRUE, value |-> JObj("value" :> JArr(<<>>))]
      [] text = Body_Joined ->
           [ok |-> TRUE,
            value |-> JObj("value" :> JArr(<<
                JObj("solutionid" :> JStr(<<"s1">>) @@ "objectid" :> JStr(<<"w1">>)
                     @@ "workflowid" :> JStr(<<"w1">>) @@ "statecode" :> JNum(1)) >>))]
      [] text = Body_Components ->
           [ok |-> TRUE,
            value |-> JObj("value" :> JArr(<<
                JObj("objectid" :> JStr(<<"w1">>)),
                JObj("objectid" :> PyNone),
                JObj("objectid" :> JStr(<<"w2">>)) >>))]
      [] text = Body_ComponentsNoId ->
           [ok |-> TRUE,
            value |-> JObj("value" :> JArr(<<
                JObj("solutioncomponentid" :> JStr(<<"c1">>)),
                JObj("objectid" :> JStr(<<>>)) >>))]
      [] text = Body_Flows ->
           [ok |-> TRUE,
            value |-> JObj("value" :> JArr(<<
                JObj("workflowid" :> JStr(<<"w1">>) @@ "statecode" :> JNum(1)
                     @@ "solutionid" :> JStr(<<"s1">>)),
                JObj("workflowid" :> JStr(<<"w2">>) @@ "statecode" :> JNum(0)
                     @@ "solutionid" :> JStr(<<"s2">>)) >>))]
      [] text = Body_List ->
           [ok |-> TRUE,
            value |-> JObj("value" :> JArr(<<JObj("a" :> JNum(1))>>)
                           @@ "@odata.count" :> JNum(1))]
      [] text = Body_ListNoCount ->
           [ok |-> TRUE,
            value |-> JObj("value" :> JArr(<<JObj("a" :> JNum(1)), JObj("a" :> JNum(2))>>))]
      [] text = Body_Record ->
           [ok |-> TRUE, value |-> JObj("a" :> JNum(1))]
      [] text = Body_Error ->
           [ok |-> TRUE,
            value |-> JObj("error" :> JObj("message" :> JStr(<<"Not Found">>)))]
      [] OTHER ->
           [ok |-> FALSE, value |-> PyNone]

\* what the server (or the transport) answers to one request; json_error is
\* the class of the JSONDecodeError that this build's response.json() raises
\* on a body that is not JSON: a RequestException since requests 2.27, a
\* plain ValueError before
Response(status, text, headers, json_error) ==
    [kind |-> "response", status |-> status, text |-> text, headers |-> headers,
     json_error |-> json_error, exc |-> "", str |-> <<>>]
Fault(exc, str) ==
    [kind |-> "exception", status |-> 0, text |-> <<>>, headers |-> <<>>,
     json_error |-> "", exc |-> exc, str |-> str]
NoAnswer ==
    [kind |-> "none", status |-> 0, text |-> <<>>, headers |-> <<>>,
     json_error |-> "", exc |-> "", str |-> <<>>]
\* the user interrupts the process while the request is in flight
Interrupt ==
    [kind |-> "interrupt", status |-> 0, text |-> <<>>, headers |-> <<>>,
     json_error |-> "", exc |-> "KeyboardInterrupt", str |-> <<>>]

\* KeyboardInterrupt is no RequestException: no except clause of the client
\* catches it
Interrupted(req) == Raise("KeyboardInterrupt", <<>>, req)

\* faulty variant: the transport error is not wrapped
RequestFailed_Unwrapped(str, req) ==
    Raise("RequestException", str, req)

\* lines 62-65 (and 99-102, 125-128, 145-148): the two except clauses
HttpError(ans, req) ==
    Raise("ClientError", <<"HTTP ">> \o Str(ans.status) \o <<": ">> \o ans.text, req)
RequestFailed(str, req) ==
    Raise("ClientError", <<"Request failed: ">> \o str, req)

\* faulty variant: the body is parsed even when it is empty
JsonOrEmpty_AlwaysParse(ans, req) ==
    LET parsed == ParseJson(ans.text)
    IN  IF parsed.ok THEN Return(parsed.value, req)
        ELSE Raise("ClientError", <<"Request failed: ">>, req)

\* `response.json() if response.text else {}`, inside the try: a
\* JSONDecodeError that is a RequestException is caught by line 64
JsonOrEmpty(ans, req) ==
    IF ans.text = <<>> THEN Return(JObj(<<>>), req)
    ELSE LET parsed == ParseJson(ans.text)
         IN  IF parsed.ok THEN Return(parsed.value, req)
             ELSE IF ans.json_error = "ValueError"
             THEN Raise("ValueError", <<"Expecting value: line 1 column 1 (char 0)">>, req)
             ELSE RequestFailed(<<"Expecting value: line 1 column 1 (char 0)">>, req)

\* faulty variant: a failed call gives up the client
ClientEffect_DropOnFailure(cl, res) ==
    [client |-> IF res.outcome = "raise" THEN PyNone ELSE cl, res |-> res]

\* a call's effect on the client (its session headers) together with its result
ClientEffect(cl, res) == [client |-> cl, res |-> res]

\* DataverseClient.get, lines 57-65
get(cl, endpoint, params, ans) ==
    LET req == <<HttpRequest("GET", cl, endpoint, params, PyNone)>>
    IN  ClientEffect(cl,
            IF ans.kind = "interrupt" THEN Interrupted(req)
            ELSE IF ans.kind = "exception" THEN RequestFailed(ans.str, req)
            ELSE IF raise_for_status(ans.status) THEN HttpError(ans, req)
            ELSE JsonOrEmpty(ans, req))

RECURSIVE split(_, _)
\* str.split(sep) for a one-character separator, on a text of characters
split(s, sep) ==
    IF \E i \in 1..Len(s) : s[i] = sep
    THEN LET i == CHOOSE k \in 1..Len(s) : s[k] = sep /\ \A j \in 1..(k - 1) : s[j] # sep
         IN  <<SubSeq(s, 1, i - 1)>> \o split(SubSeq(s, i + 1, Len(s)), sep)
    ELSE <<s>>

\* faulty variant: the text after the "(" is not cut at the ")"
EntityIdResult_NotCut(headers) ==
    LET entity_id_header == DictGet(headers, "OData-EntityId", <<>>)
    IN  IF entity_id_header # <<>> /\ (\E i \in 1..Len(entity_id_header) : entity_id_header[i] = "(")
        THEN JObj("id" :> JStr(split(entity_id_header, "(")[2]))
        ELSE JObj(<<>>)

\* lines 92-96: the record id out of the OData-EntityId header
EntityIdResult(headers) ==
    LET entity_id_header == DictGet(headers, "OData-EntityId", <<>>)
    IN  IF entity_id_header # <<>> /\ (\E i \in 1..Len(entity_id_header) : entity_id_header[i] = "(")
        THEN JObj("id" :> JStr(split(split(entity_id_header, "(")[2], ")")[1]))
        ELSE JObj(<<>>)

\* DataverseClient.post, lines 81-102
post(cl, endpoint, data, ans) ==
    LET session == [cl EXCEPT !.headers = ("Content-Type" :> <<"application/json">>)
                                          @@ ("Prefer" :> <<"return=representation">>)
                                          @@ cl.headers]
        req == <<HttpRequest("POST", session, endpoint, <<>>, data)>>
    IN  ClientEffect(session,
            IF ans.kind = "interrupt" THEN Interrupted(req)
            ELSE IF ans.kind = "exception" THEN RequestFailed(ans.str, req)
            ELSE IF raise_for_status(ans.status) THEN HttpError(ans, req)
            ELSE IF ans.status = 204 THEN Return(EntityIdResult(ans.headers), req)
            ELSE JsonOrEmpty(ans, req))

\* DataverseClient.patch, lines 118-128
patch(cl, endpoint, data, ans) ==
    LET session == [cl EXCEPT !.headers = ("Content-Type" :> <<"application/json">>)
                                          @@ cl.headers]
        req == <<HttpRequest("PATCH", session, endpoint, <<>>, data)>>
    IN  ClientEffect(session,
            IF ans.kind = "interrupt" THEN Interrupted(req)
            ELSE IF ans.kind = "exception" THEN RequestFailed(ans.str, req)
            ELSE IF raise_for_status(ans.status) THEN HttpError(ans, req)
            ELSE JsonOrEmpty(ans, req))

\* DataverseClient.delete, lines 140-148
delete(cl, endpoint, ans) ==
    LET req == <<HttpRequest("DELETE", cl, endpoint, <<>>, PyNone)>>
    IN  ClientEffect(cl,
            IF ans.kind = "interrupt" THEN Interrupted(req)
            ELSE IF ans.kind = "exception" THEN RequestFailed(ans.str, req)
            ELSE IF raise_for_status(ans.status) THEN HttpError(ans, req)
            ELSE Return(PyNone, req))

---------------------------------------------------------------------------
(* Client factory and cache: src/dataverse_cli/client.py, lines 214-280 *)

\* faulty variant: only the first missing variable is listed
Bullets_FirstOnly(missing) ==
    IF missing = <<>> THEN <<>> ELSE <<"  - ", Head(missing), "\n">>

RECURSIVE Bullets(_)
\* lines 238-239: one "  - NAME\n" line per missing variable
Bullets(missing) ==
    IF missing = <<>> THEN <<>>
    ELSE <<"  - ", Head(missing), "\n">> \o Bullets(Tail(missing))

\* lines 234-246
MissingMessage(missing) ==
    <<"Missing required Dataverse credentials. Please set the following environment variables:\n\n">>
    \o Bullets(missing)
    \o << "\nFor service principal authentication (recommended for CLI):\n",
          "  DATAVERSE_URL, DATAVERSE_CLIENT_ID, DATAVERSE_CLIENT_SECRET, DATAVERSE_TENANT_ID\n",
          "\nFor user authentication:\n",
          "  DATAVERSE_URL, DATAVERSE_CLIENT_ID, DATAVERSE_TENANT_ID, DATAVERSE_USERNAME, DATAVERSE_PASSWORD\n",
          "\nFor token authentication (if you already have a token):\n",
          "  DATAVERSE_URL, DATAVERSE_ACCESS_TOKEN\n" >>

\* a call's effect on the globals together with its result
Effect(cfg, cl, n, res) == [config |-> cfg, client |-> cl, constructed |-> n, res |-> res]

\* faulty variant: the client is constructed and cached before the token is
\* looked at, so a failed acquisition leaves a client without a token behind
Authenticate_CachePartial(c, cl, n, tok, strategy) ==
    IF tok.outcome = "raise"
    THEN Effect(c, DataverseClient(c.dataverse_url, <<>>, n + 1), n + 1,
                Raise("ClientError",
                      <<"Failed to authenticate with ", strategy, ": ">> \o tok.msg,
                      tok.net))
    ELSE LET new == DataverseClient(c.dataverse_url, tok.value.v, n + 1)
         IN  Effect(c, new, n + 1, Return(ClientRef(new), tok.net))

\* faulty variant: a failed token acquisition is tried a second time
Authenticate_Retry(c, cl, n, tok, strategy) ==
    IF tok.outcome = "raise"
    THEN Effect(c, cl, n,
                Raise("ClientError",
                      <<"Failed to authenticate with ", strategy, ": ">> \o tok.msg,
                      tok.net \o tok.net))
    ELSE LET new == DataverseClient(c.dataverse_url, tok.value.v, n + 1)
         IN  Effect(c, new, n + 1, Return(ClientRef(new), tok.net))

\* lines 256-262 and 265-271: acquire a token, construct and cache the client;
\* any exception becomes a ClientError naming the strategy
Authenticate(c, cl, n, tok, strategy) ==
    IF tok.outcome = "raise"
    THEN Effect(c, cl, n,
                Raise("ClientError",
                      <<"Failed to authenticate with ", strategy, ": ">> \o tok.msg,
                      tok.net))
    ELSE LET new == DataverseClient(c.dataverse_url, tok.value.v, n + 1)
         IN  Effect(c, new, n + 1, Return(ClientRef(new), tok.net))

\* faulty variant: the cache is not consulted
get_client_NoCache(cfg, cl, n, e, answer) ==
    LET c       == get_config(cfg, e)
        missing == get_missing_credentials(c)
    IN  IF missing # <<>>
        THEN Effect(c, cl, n, Raise("ClientError", MissingMessage(missing), <<>>))
        ELSE IF has_token_auth(c)
        THEN LET new == DataverseClient(c.dataverse_url, c.access_token, n + 1)
             IN  Effect(c, new, n + 1, Return(ClientRef(new), <<>>))
        ELSE Authenticate(c, cl, n, _get_service_principal_token(c, answer),
                          "service principal")

\* get_client() on globals (cfg, cl) with n clients constructed so far, in
\* environment e, the identity provider answering `answer` if it is asked
get_client(cfg, cl, n, e, answer) ==
    IF cl # PyNone
    THEN Effect(cfg, cl, n, Return(ClientRef(cl), <<>>))
    ELSE LET c       == get_config(cfg, e)
             missing == get_missing_credentials(c)
         IN  IF missing # <<>>
             THEN Effect(c, cl, n, Raise("ClientError", MissingMessage(missing), <<>>))
             ELSE IF has_token_auth(c)
             THEN LET new == DataverseClient(c.dataverse_url, c.access_token, n + 1)
                  IN  Effect(c, new, n + 1, Return(ClientRef(new), <<>>))
             ELSE IF has_service_principal_auth(c)
             THEN Authenticate(c, cl, n, _get_service_principal_token(c, answer),
                               "service principal")
             ELSE IF has_user_auth(c)
             THEN Authenticate(c, cl, n, _get_user_token(c, answer),
                               "user credentials")
             ELSE Effect(c, cl, n,
                         Raise("ClientError",
                               <<"No valid authentication method available">>, <<>>))

---------------------------------------------------------------------------
(* Output helpers of the package's output module, which the commands import *)

\* format_response: a {"value": [...]} wrapper is unwrapped to its list
format_response(response) ==
    IF response.t = "object" /\ "value" \in DOMAIN response.v
    THEN response.v["value"]
    ELSE response

\* handle_api_error: the exit code for an exception caught by a command
handle_api_error(exc) == IF exc = "ClientError" THEN 2 ELSE 1

\* a command ends by returning (exit code 0, `value` handed to the printer)
\* or by raising typer.Exit(code)
Exit(code, msg, net) ==
    [outcome |-> "exit", value |-> JNum(code), exc |-> "Exit", msg |-> msg, net |-> net]

\* `raise typer.Exit(code)` inside a command's try block, after `echoed` was
\* printed: typer.Exit is click's Exit, a RuntimeError
RaiseExit(code, echoed, net) ==
    [outcome |-> "raise", value |-> JNum(code), exc |-> "Exit", msg |-> echoed, net |-> net]

\* the clause that ends every command,
\*     except Exception as e: raise typer.Exit(handle_api_error(e))
\* it catches every exception of the try block, typer.Exit included; a
\* KeyboardInterrupt is no Exception and passes through
Except(res) ==
    IF res.outcome = "raise" /\ res.exc # "KeyboardInterrupt"
    THEN Exit(handle_api_error(res.exc), res.msg, res.net)
    ELSE res

---------------------------------------------------------------------------
(* Commands: src/dataverse_cli/commands/entity.py *)

\* the number of HTTP requests among the network calls
HttpCount(net) == Cardinality({i \in 1..Len(net) : net[i].kind = "http"})

\* a command's requests are answered in order: the server's answer to the
\* request that follows the network calls `net`
NextAnswer(answers, net) == answers[HttpCount(net) + 1]

NoOptions == [filter |-> Unset, select |-> Unset, orderby |-> Unset, top |-> 0]
AllOptions == [filter |-> <<"category eq 5">>, select |-> <<"name,workflowid">>,
               orderby |-> <<"name">>, top |-> 10]
QueryOptions == {NoOptions, AllOptions}

\* lines 36-44: only the options given become query parameters
QueryParams(opts) ==
    (IF Truthy(opts.filter) THEN "$filter" :> opts.filter ELSE <<>>)
    @@ (IF Truthy(opts.select) THEN "$select" :> opts.select ELSE <<>>)
    @@ (IF Truthy(opts.orderby) THEN "$orderby" :> opts.orderby ELSE <<>>)
    @@ (IF opts.top # 0 THEN "$top" :> Str(opts.top) ELSE <<>>)

\* call_query_entity, lines 33-61
query_entity(cfg, cl, n, e, answer, entity_name, opts, ans) ==
    LET gc == get_client(cfg, cl, n, e, answer)
    IN  IF gc.res.outcome = "raise"
        THEN [gc EXCEPT !.res = Except(gc.res)]
        ELSE LET g   == get(gc.client, entity_name, QueryParams(opts), ans)
                 net == gc.res.net \o g.res.net
             IN  IF g.res.outcome = "raise"
                 THEN Effect(gc.config, g.client, gc.constructed,
                             Except(Raise(g.res.exc, g.res.msg, net)))
                 ELSE Effect(gc.config, g.client, gc.constructed,
                             Return(format_response(g.res.value), net))

\* what a command that makes one request does once get_client() has
\* answered `gc`: the request's outcome `g` ends the try block with `shown`
\* handed to the printer, or with the exception of the request
Requested1(gc, g, shown) ==
    Effect(gc.config, g.client, gc.constructed,
           Except(IF g.res.outcome = "raise"
                  THEN Raise(g.res.exc, g.res.msg, gc.res.net \o g.res.net)
                  ELSE [shown EXCEPT !.net = gc.res.net \o g.res.net]))

\* the entity set, the record id and the --select option of `entity get`
GetRecordOptions ==
    { [entity_name |-> <<"workflows">>, record_id |-> <<"w1">>, select |-> sel] :
        sel \in {Unset, <<>>, <<"name,workflowid">>} }

\* get_record, lines 64-90
get_record(cfg, cl, n, e, answer, opts, answers) ==
    LET Try(gc) ==
            IF gc.res.outcome = "raise" THEN [gc EXCEPT !.res = Except(gc.res)]
            ELSE LET g == get(gc.client,
                              opts.entity_name \o <<"(">> \o opts.record_id \o <<")">>,
                              IF Truthy(opts.select) THEN "$select" :> opts.select ELSE <<>>,
                              NextAnswer(answers, gc.res.net))
                 IN  Requested1(gc, g, Return(format_response(g.res.value), <<>>))
    IN  Try(get_client(cfg, cl, n, e, answer))

\* the entity set and the --filter option of `entity count`
CountOptions ==
    { [entity_name |-> <<"workflows">>, filter_query |-> f] :
        f \in {Unset, <<>>, <<"category eq 5">>} }

\* lines 114-115: the count out of the result, 0 when it carries none; a
\* result that is no object has no get()
Counted(entity_name, result) ==
    IF result.t # "object"
    THEN Raise("AttributeError", <<"object has no attribute 'get'">>, <<>>)
    ELSE Return(JObj(("entity" :> JStr(entity_name))
                     @@ ("count" :> DictGet(result.v, "@odata.count", JNum(0)))), <<>>)

\* count_records, lines 93-119
count_records(cfg, cl, n, e, answer, opts, answers) ==
    LET Try(gc) ==
            IF gc.res.outcome = "raise" THEN [gc EXCEPT !.res = Except(gc.res)]
            ELSE LET g == get(gc.client, opts.entity_name,
                              ("$count" :> <<"true">>) @@ ("$top" :> Str(1))
                              @@ (IF Truthy(opts.filter_query)
                                  THEN "$filter" :> opts.filter_query ELSE <<>>),
                              NextAnswer(answers, gc.res.net))
                 IN  Requested1(gc, g, Counted(opts.entity_name, g.res.value))
    IN  Try(get_client(cfg, cl, n, e, answer))

\* lines 83-86 of solution.py and 145-148 of entity.py: the first element of
\* a list that has one is printed, anything else as it is
FirstOrAll(formatted) ==
    IF formatted.t = "array" /\ formatted.v # <<>> THEN formatted.v[1] ELSE formatted

\* the logical name given to `entity metadata`
MetadataOptions == { [entity_name |-> <<"workflow">>] }

\* get_entity_metadata, lines 122-152
get_entity_metadata(cfg, cl, n, e, answer, opts, answers) ==
    LET Try(gc) ==
            IF gc.res.outcome = "raise" THEN [gc EXCEPT !.res = Except(gc.res)]
            ELSE LET g == get(gc.client, <<"EntityDefinitions">>,
                              ("$filter" :> (<<"LogicalName eq '">> \o opts.entity_name
                                             \o <<"'">>))
                              @@ ("$select" :> <<"LogicalName,DisplayName,PrimaryIdAttribute,PrimaryNameAttribute,EntitySetName">>),
                              NextAnswer(answers, gc.res.net))
                 IN  Requested1(gc, g,
                                Return(FirstOrAll(format_response(g.res.value)), <<>>))
    IN  Try(get_client(cfg, cl, n, e, answer))


---------------------------------------------------------------------------
(* Commands: src/dataverse_cli/commands/solution.py *)

\* str() of a JSON value inside an f-string
Fmt(v) ==
    CASE v.t = "string" -> v.v
      [] v.t = "number" -> Str(v.v)
      [] OTHER -> <<"None">>

RECURSIVE Join(_, _)
\* sep.join(texts)
Join(texts, sep) ==
    IF texts = <<>> THEN <<>>
    ELSE IF Len(texts) = 1 THEN texts[1]
    ELSE texts[1] \o sep \o Join(Tail(texts), sep)

\* `for x in v: x.get(...)`: the exception this raises, "" if it raises none;
\* a dict iterates over its keys and a text over its characters, which have no
\* get(), and a number does not iterate
GetOnEach(v) ==
    CASE v.t = "array" ->
           IF \A i \in 1..Len(v.v) : v.v[i].t = "object" THEN "" ELSE "AttributeError"
      [] v.t = "object" -> IF DOMAIN v.v = {} THEN "" ELSE "AttributeError"
      [] v.t = "string" -> IF v.v = <<>> THEN "" ELSE "AttributeError"
      [] OTHER -> "TypeError"

\* the --id, --name and --table options of the solution commands
SolutionOptions ==
    { [solution_id |-> id, name |-> name, table_format |-> t] :
        id \in {Unset, <<"s0">>}, name \in {Unset, <<"My Solution">>}, t \in BOOLEAN }

\* lines 160-167 (and 114-121): the id of the solution with the friendly name
SolutionLookup(client, name, answers, net) ==
    LET Found(solutions, net1) ==
            IF solutions.t = "array" /\ solutions.v # <<>>
            THEN IF solutions.v[1].t = "object"
                 THEN Return(DictGet(solutions.v[1].v, "solutionid", PyNone), net1)
                 ELSE Raise("AttributeError", <<"object has no attribute 'get'">>, net1)
            ELSE RaiseExit(1, <<"Error: Solution '">> \o name \o <<"' not found">>, net1)
        Queried(g) ==
            IF g.outcome = "raise" THEN Raise(g.exc, g.msg, net \o g.net)
            ELSE Found(format_response(g.value), net \o g.net)
    IN  Queried(get(client, <<"solutions">>,
                    ("$filter" :> (<<"friendlyname eq '">> \o name \o <<"'">>))
                    @@ ("$select" :> <<"solutionid">>),
                    NextAnswer(answers, net)).res)

\* lines 159-171 (and 113-125): the solution id out of --id or --name
ResolveSolutionId(client, opts, answers, net) ==
    LET Checked(found) ==
            IF found.outcome = "raise" THEN found
            ELSE IF ~PyTruthy(found.value)
            THEN RaiseExit(1, <<"Error: Either --id or --name must be provided">>, found.net)
            ELSE found
    IN  Checked(IF Truthy(opts.name) /\ ~Truthy(opts.solution_id)
                THEN SolutionLookup(client, opts.name, answers, net)
                ELSE Return(IF opts.solution_id = Unset THEN PyNone
                            ELSE JStr(opts.solution_id), net))

\* the --managed and --table options of `solution list`; line 19 gives the
\* flag the one name --managed, so a command line leaves it None or makes
\* it True, and no command line makes it False
SolutionListOptions ==
    { [managed |-> m, table_format |-> t] :
        m \in {PyNone, PyBool(TRUE)}, t \in BOOLEAN }

\* lines 46-47: the solutions with their managed status spelled out
AddManaged(solution) ==
    JObj(("managed" :> JStr(IF PyTruthy(DictGet(solution.v, "ismanaged", PyNone))
                            THEN <<"Yes">> ELSE <<"No">>))
         @@ solution.v)

\* lines 44-51: the solutions go to print_table with their managed status, or
\* to print_json as they are
ShowSolutions(solutions, table_format) ==
    IF table_format /\ solutions.t = "array"
    THEN IF \A i \in 1..Len(solutions.v) : solutions.v[i].t = "object"
         THEN Return(JArr([i \in 1..Len(solutions.v) |-> AddManaged(solutions.v[i])]), <<>>)
         ELSE Raise("AttributeError", <<"object has no attribute 'get'">>, <<>>)
    ELSE Return(solutions, <<>>)

\* list_solutions, lines 17-55
list_solutions(cfg, cl, n, e, answer, opts, answers) ==
    LET Try(gc) ==
            IF gc.res.outcome = "raise" THEN [gc EXCEPT !.res = Except(gc.res)]
            ELSE LET g == get(gc.client, <<"solutions">>,
                              ("$select" :> <<"solutionid,friendlyname,uniquename,version,ismanaged,installedon">>)
                              @@ ("$orderby" :> <<"friendlyname">>)
                              @@ (IF opts.managed # PyNone
                                  THEN "$filter" :> (<<"ismanaged eq ">>
                                           \o (IF opts.managed.v THEN <<"true">>
                                               ELSE <<"false">>))
                                  ELSE <<>>),
                              NextAnswer(answers, gc.res.net))
                 IN  Requested1(gc, g,
                                ShowSolutions(format_response(g.res.value),
                                              opts.table_format))
    IN  Try(get_client(cfg, cl, n, e, answer))

\* get_solution, lines 58-93
get_solution(cfg, cl, n, e, answer, opts, answers) ==
    LET Try(gc) ==
            IF gc.res.outcome = "raise" THEN [gc EXCEPT !.res = Except(gc.res)]
            ELSE IF Truthy(opts.solution_id)
            THEN LET g == get(gc.client, <<"solutions(">> \o opts.solution_id \o <<")">>,
                              <<>>, NextAnswer(answers, gc.res.net))
                 IN  Requested1(gc, g, Return(format_response(g.res.value), <<>>))
            ELSE IF Truthy(opts.name)
            THEN LET g == get(gc.client, <<"solutions">>,
                              "$filter" :> (<<"friendlyname eq '">> \o opts.name \o <<"'">>),
                              NextAnswer(answers, gc.res.net))
                 IN  Requested1(gc, g,
                                Return(FirstOrAll(format_response(g.res.value)), <<>>))
            ELSE [gc EXCEPT !.res =
                     Except(RaiseExit(1, <<"Error: Either --id or --name must be provided">>,
                                      gc.res.net))]
    IN  Try(get_client(cfg, cl, n, e, answer))

\* flow.py 65-72 and solution.py 204-211: the flows go to print_table with
\* their state spelled out, or to print_json as they are
AddState(flow) ==
    JObj(("state" :> JStr(IF DictGet(flow.v, "statecode", PyNone) = JNum(1)
                          THEN <<"Activated">> ELSE <<"Draft">>))
         @@ flow.v)
ShowFlows(flows, table_format, net) ==
    LET Each(raised) ==
            IF raised # ""
            THEN Raise(raised, <<"object has no attribute 'get'">>, net)
            ELSE Return(JArr([i \in 1..Len(flows.v) |-> AddState(flows.v[i])]), net)
    IN  IF table_format /\ flows.t = "array" THEN Each(GetOnEach(flows))
        ELSE Return(flows, net)

\* line 187: the object ids of the components that have one
RECURSIVE WorkflowIds(_)
WorkflowIds(components) ==
    IF components = <<>> THEN <<>>
    ELSE LET objectid == DictGet(Head(components).v, "objectid", PyNone)
         IN  (IF PyTruthy(objectid) THEN <<objectid>> ELSE <<>>)
             \o WorkflowIds(Tail(components))

\* faulty variant: the workflows are queried whenever there are components
WorkflowsQueryNeeded_AnyComponent(workflow_ids, components) == PyTruthy(components)

\* line 189: the second hop is made only for a non-empty list of ids
WorkflowsQueryNeeded(workflow_ids, components) == workflow_ids # <<>>

\* lines 194-199
WorkflowsParams(workflow_ids) ==
    ("$filter" :> (<<"category eq 5 and (">>
                   \o Join([i \in 1..Len(workflow_ids) |->
                               <<"workflowid eq ">> \o Fmt(workflow_ids[i])], <<" or ">>)
                   \o <<")">>))
    @@ ("$select" :> <<"workflowid,name,statecode,createdon,modifiedon">>)
    @@ ("$orderby" :> <<"modifiedon desc">>)

\* list_solution_flows, lines 156-211: the try block after get_client()
SolutionFlows(client, opts, answers, net0) ==
    LET Workflows(w, net1) ==
            IF w.outcome = "raise" THEN Raise(w.exc, w.msg, net1 \o w.net)
            ELSE ShowFlows(format_response(w.value), opts.table_format, net1 \o w.net)
        Ids(workflow_ids, components, net1) ==
            IF ~WorkflowsQueryNeeded(workflow_ids, components)
            THEN ShowFlows(JArr(<<>>), opts.table_format, net1)
            ELSE Workflows(get(client, <<"workflows">>, WorkflowsParams(workflow_ids),
                               NextAnswer(answers, net1)).res, net1)
        Each(raised, components, net1) ==
            IF raised # ""
            THEN Raise(raised, <<"object has no attribute 'get'">>, net1)
            ELSE Ids(WorkflowIds(components.v), components, net1)
        Components(components, net1) ==
            IF ~PyTruthy(components) THEN ShowFlows(JArr(<<>>), opts.table_format, net1)
            ELSE Each(GetOnEach(components), components, net1)
        Queried(g, net) ==
            IF g.outcome = "raise" THEN Raise(g.exc, g.msg, net \o g.net)
            ELSE Components(format_response(g.value), net \o g.net)
        Resolved(sid) ==
            IF sid.outcome = "raise" THEN sid
            ELSE Queried(get(client, <<"solutioncomponents">>,
                             ("$filter" :> (<<"_solutionid_value eq ">> \o Fmt(sid.value)
                                            \o <<" and componenttype eq 29">>))
                             @@ ("$select" :> <<"objectid">>),
                             NextAnswer(answers, sid.net)).res, sid.net)
    IN  Resolved(ResolveSolutionId(client, opts, answers, net0))

\* list_solution_flows, lines 155-215
list_solution_flows(cfg, cl, n, e, answer, opts, answers) ==
    LET Try(gc) ==
            IF gc.res.outcome = "raise"
            THEN [gc EXCEPT !.res = Except(gc.res)]
            ELSE [gc EXCEPT !.res = Except(SolutionFlows(gc.client, opts, answers,
                                                         gc.res.net))]
    IN  Try(get_client(cfg, cl, n, e, answer))

\* list_solution_components, lines 110-135: the try block after get_client()
SolutionComponents(client, opts, answers, net0) ==
    LET Queried(g, net) ==
            IF g.outcome = "raise" THEN Raise(g.exc, g.msg, net \o g.net)
            ELSE Return(format_response(g.value), net \o g.net)
        Resolved(sid) ==
            IF sid.outcome = "raise" THEN sid
            ELSE Queried(get(client, <<"solutioncomponents">>,
                             ("$filter" :> (<<"_solutionid_value eq ">> \o Fmt(sid.value)))
                             @@ ("$select" :>
                                   <<"solutioncomponentid,componenttype,objectid,createdon">>),
                             NextAnswer(answers, sid.net)).res, sid.net)
    IN  Resolved(ResolveSolutionId(client, opts, answers, net0))

\* list_solution_components, lines 109-139
list_solution_components(cfg, cl, n, e, answer, opts, answers) ==
    LET Try(gc) ==
            IF gc.res.outcome = "raise"
            THEN [gc EXCEPT !.res = Except(gc.res)]
            ELSE [gc EXCEPT !.res = Except(SolutionComponents(gc.client, opts, answers,
                                                              gc.res.net))]
    IN  Try(get_client(cfg, cl, n, e, answer))

---------------------------------------------------------------------------
(* Commands: src/dataverse_cli/commands/flow.py *)

\* str.lower() on the option values and message pieces that occur
LowerPiece(piece) ==
    CASE piece = "HTTP" -> "http"
      [] piece = "Referenced By" -> "referenced by"
      [] piece = "HTTP " -> "http "
      [] piece = "The connector is " -> "the connector is "
      [] piece = "Manual" -> "manual"
      [] piece = "Scheduled" -> "scheduled"
      [] piece = "Activated" -> "activated"
      [] OTHER -> piece
Lower(text) == [i \in 1..Len(text) |-> LowerPiece(text[i])]

\* the --solution, --state and --table options of `flow list`
ListOptions ==
    { [solution |-> sol, state |-> st, table_format |-> t] :
        sol \in {Unset, <<"My Solution">>},
        st \in {Unset, <<"Activated">>, <<"draft">>},
        t \in BOOLEAN }

\* lines 38-49
ListParams(opts) ==
    ("$filter" :> (<<"category eq 5">>
                   \o (IF Truthy(opts.state)
                       THEN <<" and ", "statecode eq ">>
                            \o Str(IF Lower(opts.state) = <<"activated">> THEN 1 ELSE 0)
                       ELSE <<>>)))
    @@ ("$select" :> <<"workflowid,name,statecode,statuscode,createdon,modifiedon,solutionid">>)
    @@ ("$orderby" :> <<"modifiedon desc">>)

\* faulty variant: the flows are not narrowed to the solution
FlowsOfSolution_Unfiltered(flows, solution_id) == flows

\* line 63: the flows whose solutionid is solution_id
RECURSIVE FlowsOfSolution(_, _)
FlowsOfSolution(flows, solution_id) ==
    IF flows = <<>> THEN <<>>
    ELSE (IF DictGet(Head(flows).v, "solutionid", PyNone) = solution_id
          THEN <<Head(flows)>> ELSE <<>>)
         \o FlowsOfSolution(Tail(flows), solution_id)

\* faulty variant: when the lookup of the solution fails, the flows are shown
\* unfiltered
FilterBySolution_IgnoreFailure(client, flows, solution, answers, net) ==
    LET g == get(client, <<"solutions">>,
                 ("$filter" :> (<<"friendlyname eq '">> \o solution \o <<"'">>))
                 @@ ("$select" :> <<"solutionid">>),
                 NextAnswer(answers, net)).res
    IN  Return(flows, net \o g.net)

\* lines 55-63: the flows narrowed to those of the solution with the name
FilterBySolution(client, flows, solution, answers, net) ==
    LET g    == get(client, <<"solutions">>,
                    ("$filter" :> (<<"friendlyname eq '">> \o solution \o <<"'">>))
                    @@ ("$select" :> <<"solutionid">>),
                    NextAnswer(answers, net)).res
        net1 == net \o g.net
    IN  IF g.outcome = "raise" THEN Raise(g.exc, g.msg, net1)
        ELSE
        LET solutions == format_response(g.value)
        IN  IF ~PyTruthy(solutions) THEN Return(flows, net1)
            ELSE IF solutions.t = "object"
            THEN Raise("KeyError", <<"0">>, net1)
            ELSE IF solutions.t # "array" \/ solutions.v[1].t # "object"
            THEN Raise("AttributeError", <<"object has no attribute 'get'">>, net1)
            ELSE IF GetOnEach(flows) # ""
            THEN Raise(GetOnEach(flows), <<"object has no attribute 'get'">>, net1)
            ELSE Return(JArr(FlowsOfSolution(flows.v,
                                 DictGet(solutions.v[1].v, "solutionid", PyNone))), net1)

\* list_flows, lines 37-72: the try block after get_client()
Flows(client, opts, answers, net0) ==
    LET g    == get(client, <<"workflows">>, ListParams(opts), NextAnswer(answers, net0)).res
        net1 == net0 \o g.net
    IN  IF g.outcome = "raise" THEN Raise(g.exc, g.msg, net1)
        ELSE
        LET flows    == format_response(g.value)
            filtered == IF Truthy(opts.solution) /\ flows.t = "array"
                        THEN FilterBySolution(client, flows, opts.solution, answers, net1)
                        ELSE Return(flows, net1)
        IN  IF filtered.outcome = "raise" THEN filtered
            ELSE ShowFlows(filtered.value, opts.table_format, filtered.net)

\* list_flows, lines 34-76
list_flows(cfg, cl, n, e, answer, opts, answers) ==
    LET gc == get_client(cfg, cl, n, e, answer)
    IN  IF gc.res.outcome = "raise"
        THEN [gc EXCEPT !.res = Except(gc.res)]
        ELSE [gc EXCEPT !.res = Except(Flows(gc.client, opts, answers, gc.res.net))]

\* the flow id given to `flow get`, `flow activate` and `flow deactivate`
FlowIdOptions == { [flow_id |-> <<"w1">>] }

\* get_flow, lines 79-97
get_flow(cfg, cl, n, e, answer, opts, answers) ==
    LET Try(gc) ==
            IF gc.res.outcome = "raise" THEN [gc EXCEPT !.res = Except(gc.res)]
            ELSE LET g == get(gc.client, <<"workflows(">> \o opts.flow_id \o <<")">>, <<>>,
                              NextAnswer(answers, gc.res.net))
                 IN  Requested1(gc, g, Return(format_response(g.res.value), <<>>))
    IN  Try(get_client(cfg, cl, n, e, answer))

\* lines 287-290 and 307-310: the state code is written to the flow and the
\* success is printed
SetState(cfg, cl, n, e, answer, opts, answers, statecode) ==
    LET Try(gc) ==
            IF gc.res.outcome = "raise" THEN [gc EXCEPT !.res = Except(gc.res)]
            ELSE LET p == patch(gc.client, <<"workflows(">> \o opts.flow_id \o <<")">>,
                                JObj("statecode" :> JNum(statecode)),
                                NextAnswer(answers, gc.res.net))
                 IN  Requested1(gc, p, Return(PyNone, <<>>))
    IN  Try(get_client(cfg, cl, n, e, answer))

\* activate_flow, lines 277-294
activate_flow(cfg, cl, n, e, answer, opts, answers) ==
    SetState(cfg, cl, n, e, answer, opts, answers, 1)

\* deactivate_flow, lines 297-314
deactivate_flow(cfg, cl, n, e, answer, opts, answers) ==
    SetState(cfg, cl, n, e, answer, opts, answers, 0)

\* the --trigger values tried; the default is http
Triggers == {<<"http">>, <<"HTTP">>, <<"manual">>, <<"Manual">>, <<"scheduled">>,
             <<"Scheduled">>, <<"webhook">>, <<>>}

\* the --name, --trigger, --solution-id and --description options of `flow create`
CreateOptions ==
    { [name |-> <<"My Flow">>, trigger |-> tr, solution_id |-> sid, description |-> d] :
        tr \in Triggers, sid \in {Unset, <<"s0">>}, d \in {Unset, <<"a flow">>} }

\* json.dumps of the trigger definition of lines 119-130 (http) and 132-143
\* (manual): one trigger of type Request with an empty object schema
TriggerText(key, kind) ==
    <<"{\"" \o key \o "\": {\"type\": \"Request\", \"kind\": \"" \o kind
      \o "\", \"inputs\": {\"schema\": {\"type\": \"object\", \"properties\": {}}}}}">>

\* faulty variant: every trigger type is taken for an http trigger
TriggerDef_Lenient(trigger) ==
    IF Lower(trigger) = <<"manual">>
    THEN Return(JStr(TriggerText("manual", "Button")), <<>>)
    ELSE Return(JStr(TriggerText("Incoming_Topics", "Http")), <<>>)

\* lines 118-146: the trigger definition for the trigger type
TriggerDef(trigger) ==
    IF Lower(trigger) = <<"http">>
    THEN Return(JStr(TriggerText("Incoming_Topics", "Http")), <<>>)
    ELSE IF Lower(trigger) = <<"manual">>
    THEN Return(JStr(TriggerText("manual", "Button")), <<>>)
    ELSE RaiseExit(1, <<"Unsupported trigger type: ">> \o trigger, <<>>)

\* lines 148-169 and 187: json.dumps of the flow definition around the trigger
ClientData(trigger_def) ==
    <<"{\"properties\": {\"connectionReferences\": {}, \"definition\": {\"$schema\": \"https://schema.management.azure.com/providers/Microsoft.Logic/schemas/2016-06-01/workflowdefinition.json#\", \"contentVersion\": \"1.0.0.0\", \"parameters\": {\"$authentication\": {\"defaultValue\": {}, \"type\": \"SecureObject\"}, \"$connections\": {\"defaultValue\": {}, \"type\": \"Object\"}}, \"triggers\": ">>
    \o trigger_def.v
    \o <<", \"actions\": {}}}, \"schemaVersion\": \"1.0.0.0\"}">>

\* lines 172-198: the workflow record; clientdata is the serialized definition
FlowRecord(opts, trigger_def) ==
    JObj(("name" :> JStr(opts.name))
         @@ ("type" :> JNum(1))
         @@ ("category" :> JNum(5))
         @@ ("primaryentity" :> JStr(<<"none">>))
         @@ ("mode" :> JNum(0))
         @@ ("ondemand" :> PyBool(FALSE))
         @@ ("subprocess" :> PyBool(FALSE))
         @@ ("scope" :> JNum(4))
         @@ ("triggeroncreate" :> PyBool(FALSE))
         @@ ("triggerondelete" :> PyBool(FALSE))
         @@ ("asyncautodelete" :> PyBool(FALSE))
         @@ ("syncworkflowlogonfailure" :> PyBool(FALSE))
         @@ ("statecode" :> JNum(0))
         @@ ("statuscode" :> JNum(1))
         @@ ("clientdata" :> JStr(ClientData(trigger_def)))
         @@ ("istransacted" :> PyBool(TRUE))
         @@ ("runas" :> JNum(1))
         @@ ("modernflowtype" :> JNum(0))
         @@ ("clientdataiscompressed" :> PyBool(FALSE))
         @@ (IF Truthy(opts.description) THEN "description" :> JStr(opts.description) ELSE <<>>)
         @@ (IF Truthy(opts.solution_id) THEN "solutionid" :> JStr(opts.solution_id) ELSE <<>>))

\* create_flow, lines 117-204: the try block after get_client(); its effect on
\* the client (post() changes the session) and its result
CreateFlow(client, opts, answers, net0) ==
    LET trigger_def == TriggerDef(opts.trigger)
    IN  IF trigger_def.outcome = "raise"
        THEN ClientEffect(client, RaiseExit(1, trigger_def.msg, net0))
        ELSE
        LET p   == post(client, <<"workflows">>, FlowRecord(opts, trigger_def.value),
                        NextAnswer(answers, net0))
            net == net0 \o p.res.net
        IN  IF p.res.outcome = "raise"
            THEN ClientEffect(p.client, Raise(p.res.exc, p.res.msg, net))
            ELSE IF p.res.value.t # "object"
            THEN ClientEffect(p.client,
                              Raise("AttributeError", <<"object has no attribute 'get'">>, net))
            ELSE
            LET workflowid == DictGet(p.res.value.v, "workflowid", PyNone)
                flow_id    == IF PyTruthy(workflowid) THEN workflowid
                              ELSE DictGet(p.res.value.v, "id", PyNone)
            IN  ClientEffect(p.client,
                    Return(JObj(("flow_id" :> flow_id) @@ ("name" :> JStr(opts.name))
                                @@ ("trigger" :> JStr(opts.trigger))), net))

\* create_flow, lines 114-208
create_flow(cfg, cl, n, e, answer, opts, answers) ==
    LET gc == get_client(cfg, cl, n, e, answer)
    IN  IF gc.res.outcome = "raise"
        THEN [gc EXCEPT !.res = Except(gc.res)]
        ELSE LET c == CreateFlow(gc.client, opts, answers, gc.res.net)
             IN  Effect(gc.config, c.client, gc.constructed, Except(c.res))

\* the flow id and the --name, --description and --state options of `flow update`
UpdateOptions ==
    { [flow_id |-> <<"w1">>, name |-> nm, description |-> d, state |-> st] :
        nm \in {Unset, <<>>, <<"New Name">>}, d \in {Unset, <<"a flow">>},
        st \in {Unset, <<"Activated">>, <<"draft">>} }

\* lines 229-235: only the options given go into the record
UpdateData(opts) ==
    JObj((IF Truthy(opts.name) THEN "name" :> JStr(opts.name) ELSE <<>>)
         @@ (IF Truthy(opts.description) THEN "description" :> JStr(opts.description) ELSE <<>>)
         @@ (IF Truthy(opts.state)
             THEN "statecode" :> JNum(IF Lower(opts.state) = <<"activated">> THEN 1 ELSE 0)
             ELSE <<>>))

\* update_flow, lines 229-242: the try block after get_client()
UpdateFlow(client, opts, answers, net0) ==
    LET data == UpdateData(opts)
    IN  IF ~PyTruthy(data)
        THEN ClientEffect(client, RaiseExit(1, <<"No update parameters provided">>, net0))
        ELSE
        LET p   == patch(client, <<"workflows(">> \o opts.flow_id \o <<")">>, data,
                         NextAnswer(answers, net0))
            net == net0 \o p.res.net
        IN  IF p.res.outcome = "raise"
            THEN ClientEffect(p.client, Raise(p.res.exc, p.res.msg, net))
            ELSE ClientEffect(p.client, Return(PyNone, net))

\* update_flow, lines 226-246
update_flow(cfg, cl, n, e, answer, opts, answers) ==
    LET gc == get_client(cfg, cl, n, e, answer)
    IN  IF gc.res.outcome = "raise"
        THEN [gc EXCEPT !.res = Except(gc.res)]
        ELSE LET u == UpdateFlow(gc.client, opts, answers, gc.res.net)
             IN  Effect(gc.config, u.client, gc.constructed, Except(u.res))


\* the flow id, the --yes option, and what happens at the prompt if there is
\* one: the line y, n or an empty line, the end of the input, or Ctrl-C
DeleteOptions ==
    { [flow_id |-> <<"w1">>, confirm |-> yes, reply |-> r] :
        yes \in BOOLEAN, r \in {"y", "n", "", "eof", "interrupt"} }

\* typer.confirm() with its default of False: the empty line is a no; the
\* end of the input and a KeyboardInterrupt at the prompt both raise click's
\* Abort
typer_confirm(reply) ==
    CASE reply = "y" -> [outcome |-> "return", value |-> TRUE]
      [] reply \in {"eof", "interrupt"} -> [outcome |-> "raise", value |-> FALSE]
      [] OTHER -> [outcome |-> "return", value |-> FALSE]

\* faulty variant: the delete goes ahead whatever the reply
Confirmation_Ignored(opts) == "go"

\* lines 262-266: whether the command goes on to delete, is cancelled at the
\* prompt (typer.Exit(0)), or is aborted at the prompt
Confirmation(opts) ==
    IF opts.confirm THEN "go"
    ELSE IF typer_confirm(opts.reply).outcome = "raise" THEN "Abort"
    ELSE IF typer_confirm(opts.reply).value THEN "go"
    ELSE "Exit"

\* delete_flow, lines 261-274
delete_flow(cfg, cl, n, e, answer, opts, ans) ==
    LET Deleted(gc, d) ==
            IF d.res.outcome = "raise"
            THEN Effect(gc.config, d.client, gc.constructed,
                        Except(Raise(d.res.exc, d.res.msg, gc.res.net \o d.res.net)))
            ELSE Effect(gc.config, d.client, gc.constructed,
                        Return(PyNone, gc.res.net \o d.res.net))
        Try(gc) ==
            IF gc.res.outcome = "raise"
            THEN [gc EXCEPT !.res = Except(gc.res)]
            ELSE Deleted(gc, delete(gc.client, <<"workflows(">> \o opts.flow_id \o <<")">>,
                                    ans))
        Asked(confirmation) ==
            IF confirmation = "Exit"
            THEN Effect(cfg, cl, n, Except(RaiseExit(0, <<"Delete cancelled">>, <<>>)))
            ELSE IF confirmation = "Abort"
            THEN Effect(cfg, cl, n, Except(Raise("Abort", <<>>, <<>>)))
            ELSE Try(get_client(cfg, cl, n, e, answer))
    IN  Asked(Confirmation(opts))
---------------------------------------------------------------------------
(* Commands: src/dataverse_cli/commands/auth.py *)

\* a command returns after printing `printed` and, last, the JSON `value`
Printed(printed, value, net) ==
    [outcome |-> "return", value |-> value, exc |-> "", msg |-> printed, net |-> net]

\* lines 26-31 (and 113-118): the missing credentials are listed, exit 1
MissingCredentialsExit(missing) ==
    RaiseExit(1, <<"Missing required credentials:", "\n">> \o Bullets(missing), <<>>)

\* lines 35-56 and 59-83: `auth test` names the method, asks the identity
\* provider for a token and reports the outcome
TestToken(c, grant, auth_method, answer) ==
    LET named == <<"auth_method: ", auth_method, "\n">>
        scope == get_auth_scope(c)
        req   == <<TokenRequest(grant, c)>>
        r     == IdpResult(answer, grant)
    IN  IF scope.outcome = "raise" THEN scope
        ELSE IF r.raised THEN Raise(r.exc, r.str, req)
        ELSE IF "access_token" \in DOMAIN r.result
        THEN Printed(named \o <<"Authentication successful!">>,
                     JObj(("token_type" :> PyNone) @@ ("expires_in" :> PyNone)
                          @@ ("scope" :> scope.value)),
                     req)
        ELSE RaiseExit(1,
                       named \o <<"Authentication failed: ">>
                         \o DictGet(r.result, "error_description",
                                    DictGet(r.result, "error", <<"Unknown error">>)),
                       req)

\* test_auth, lines 23-91: the try block
TestAuth(c, answer) ==
    LET missing == get_missing_credentials(c)
    IN  IF missing # <<>> THEN MissingCredentialsExit(missing)
        ELSE IF has_service_principal_auth(c)
        THEN TestToken(c, "client_credentials", "service_principal", answer)
        ELSE IF has_user_auth(c)
        THEN TestToken(c, "password", "user_credentials", answer)
        ELSE IF has_token_auth(c)
        THEN Printed(<<"Using provided access token">>,
                     JObj("auth_method" :> JStr(<<"access_token">>)), <<>>)
        ELSE RaiseExit(1, <<"No valid authentication method configured">>, <<>>)

\* test_auth, lines 22-95
test_auth(cfg, cl, n, e, answer) ==
    LET c == get_config(cfg, e)
    IN  Effect(c, cl, n, Except(TestAuth(c, answer)))

\* lines 128-144 and 147-166: `auth token` asks the identity provider
FetchToken(c, grant, strategy, answer) ==
    LET scope == get_auth_scope(c)
        req   == <<TokenRequest(grant, c)>>
        r     == IdpResult(answer, grant)
    IN  IF scope.outcome = "raise" THEN scope
        ELSE IF r.raised THEN Raise(r.exc, r.str, req)
        ELSE IF "access_token" \in DOMAIN r.result
        THEN Printed(<<"Token acquired successfully (", strategy, ")">>,
                     JStr(r.result["access_token"]), req)
        ELSE RaiseExit(1,
                       <<"Failed to acquire token: ">>
                         \o DictGet(r.result, "error_description",
                                    DictGet(r.result, "error", <<"Unknown error">>)),
                       req)

\* lines 168-174: the token is shown only with --show
ShowToken(got, show_token) ==
    IF got.outcome # "return" THEN got
    ELSE Printed(got.msg,
                 IF show_token THEN JObj("access_token" :> got.value)
                 ELSE JObj(("message" :> JStr(<<"Token acquired successfully">>))
                           @@ ("hint" :> JStr(<<"Use --show to display the full token">>))),
                 got.net)

\* get_token, lines 110-174: the try block
GetToken(c, answer, show_token) ==
    LET missing == get_missing_credentials(c)
    IN  IF missing # <<>> THEN MissingCredentialsExit(missing)
        ELSE IF has_token_auth(c)
        THEN ShowToken(Printed(<<"Using configured access token">>, JStr(c.access_token), <<>>),
                       show_token)
        ELSE IF has_service_principal_auth(c)
        THEN ShowToken(FetchToken(c, "client_credentials", "service principal", answer),
                       show_token)
        ELSE IF has_user_auth(c)
        THEN ShowToken(FetchToken(c, "password", "user credentials", answer), show_token)
        ELSE ShowToken(Printed(<<>>, PyNone, <<>>), show_token)

\* get_token, lines 109-178
get_token(cfg, cl, n, e, answer, show_token) ==
    LET c == get_config(cfg, e)
    IN  Effect(c, cl, n, Except(GetToken(c, answer, show_token)))

\* whoami, lines 181-202: the answer of WhoAmI() is printed as it is
whoami(cfg, cl, n, e, answer, opts, answers) ==
    LET Try(gc) ==
            IF gc.res.outcome = "raise" THEN [gc EXCEPT !.res = Except(gc.res)]
            ELSE LET g == get(gc.client, <<"WhoAmI()">>, <<>>,
                              NextAnswer(answers, gc.res.net))
                 IN  Requested1(gc, g, Return(g.res.value, <<>>))
    IN  Try(get_client(cfg, cl, n, e, answer))

---------------------------------------------------------------------------
(* The process: src/dataverse_cli/main.py *)

\* the process ends with this exit status
SystemExit(code, res) ==
    [outcome |-> "SystemExit", value |-> res.value, exc |-> res.exc, msg |-> res.msg,
     net |-> res.net, status |-> code]

\* line 73, app(): typer runs the command in standalone mode and ends the
\* process itself: with status 0 when the command returns, with the code of
\* a typer.Exit, and with status 130 on a KeyboardInterrupt, which typer
\* turns into Exit(130); any other exception leaves app()
app(res) ==
    IF res.outcome = "return" THEN SystemExit(0, res)
    ELSE IF res.outcome = "exit" THEN SystemExit(res.value.v, res)
    ELSE IF res.exc = "KeyboardInterrupt" THEN SystemExit(130, res)
    ELSE res

\* main(), lines 72-84: SystemExit is no Exception and passes; what app()
\* raises is turned into a typer.Exit raised out of main(), except that
\* with --debug among the arguments an unexpected exception is raised again
\* after its message (lines 82-83)
main(res, debug) ==
    LET r == app(res)
    IN  IF r.outcome = "SystemExit" THEN r
        ELSE IF r.exc = "ClientError" THEN Exit(2, <<"Error: ">> \o r.msg, r.net)
        ELSE IF r.exc = "KeyboardInterrupt" THEN Exit(130, <<"\nAborted!">>, r.net)
        ELSE IF debug THEN r
        ELSE Exit(1, <<"Unexpected error: ">> \o r.msg, r.net)

\* lines 87-88: the interpreter ends with the status of a SystemExit, and
\* with status 1 on any other exception that leaves main(), a typer.Exit
\* raised outside of app() among them; no command line of the runs below
\* carries --debug
Process(res) ==
    LET r == main(res, FALSE)
    IN  IF r.outcome = "SystemExit" THEN r ELSE SystemExit(1, r)

---------------------------------------------------------------------------
(* The connector script: src/delete_connector.py *)

\* the connector id on the command line
ConnectorId == <<"c1">>

\* a result that is returned after the lines `printed` have been printed
ReturnPrinted(value, printed, net) == [Return(value, net) EXCEPT !.msg = printed]

\* retrieve_dependencies, lines 12-26: the client's error is printed and None
\* is returned in place of the dependencies; any other exception passes
retrieve_dependencies(client, connector_id, ans) ==
    LET Posted(p) ==
            IF p.res.outcome = "raise" /\ p.res.exc = "ClientError"
            THEN ClientEffect(p.client,
                     ReturnPrinted(PyNone, <<"Error retrieving dependencies: ">> \o p.res.msg,
                                   p.res.net))
            ELSE p
    IN  Posted(post(client, <<"RetrieveDependenciesForDelete">>,
                    JObj(("ObjectId" :> JStr(connector_id)) @@ ("ComponentType" :> JNum(372))),
                    ans))

\* faulty variant: the message is searched as it is spelled
IsDependencyError_CaseSensitive(msg) == Contains(msg, <<"referenced by">>)

\* line 59
IsDependencyError(msg) == Contains(Lower(msg), <<"referenced by">>)

\* lines 55-67: the handler of the client's error; any other exception leaves
\* delete_connector()
Caught(res, printed, net) ==
    IF res.exc = "ClientError"
    THEN ReturnPrinted(PyBool(FALSE),
             printed \o <<"Failed to delete connector: ">> \o res.msg
             \o (IF IsDependencyError(res.msg)
                 THEN <<"The connector has dependencies that must be removed first.">>
                 ELSE <<>>),
             net)
    ELSE Raise(res.exc, res.msg, net)

\* delete_connector, lines 28-67; load_dotenv() has made the variables of a
\* .env file part of the environment e
delete_connector(cfg, cl, n, e, answer, connector_id, answers) ==
    LET Deleted(gc, d, printed, net) ==
            IF d.res.outcome = "raise"
            THEN Effect(gc.config, d.client, gc.constructed,
                        Caught(d.res, printed, net \o d.res.net))
            ELSE Effect(gc.config, d.client, gc.constructed,
                        ReturnPrinted(PyBool(TRUE),
                                      printed \o <<"Successfully deleted connector">>,
                                      net \o d.res.net))
        Checked(gc, dep, printed, net) ==
            IF dep.res.outcome = "raise"
            THEN Effect(gc.config, dep.client, gc.constructed,
                        Caught(dep.res, printed, net \o dep.res.net))
            ELSE Deleted(gc,
                         delete(dep.client, <<"connectors(">> \o connector_id \o <<")">>,
                                NextAnswer(answers, net \o dep.res.net)),
                         printed \o dep.res.msg
                         \o (IF PyTruthy(dep.res.value) THEN <<"Dependencies found">> ELSE <<>>)
                         \o <<"Attempting to delete connector">>,
                         net \o dep.res.net)
        Fetched(gc, g, printed, net) ==
            IF g.res.outcome = "raise"
            THEN Effect(gc.config, g.client, gc.constructed,
                        Caught(g.res, printed, net \o g.res.net))
            ELSE IF g.res.value.t # "object"
            THEN Effect(gc.config, g.client, gc.constructed,
                        Raise("AttributeError", <<"object has no attribute 'get'">>,
                              net \o g.res.net))
            ELSE Checked(gc,
                         retrieve_dependencies(g.client, connector_id,
                                               NextAnswer(answers, net \o g.res.net)),
                         printed \o <<"Found connector", "Checking for dependencies">>,
                         net \o g.res.net)
        Try(gc) ==
            IF gc.res.outcome = "raise"
            THEN [gc EXCEPT !.res = Caught(gc.res, <<>>, gc.res.net)]
            ELSE Fetched(gc,
                         get(gc.client, <<"connectors(">> \o connector_id \o <<")">>,
                             "$select" :> <<"connectorid,name,displayname">>,
                             NextAnswer(answers, gc.res.net)),
                         <<"Fetching connector">>, gc.res.net)
    IN  Try(get_client(cfg, cl, n, e, answer))

\* lines 69-78: the exit status is 0 for True and 1 for False; an exception
\* that leaves delete_connector() ends the interpreter with a traceback and
\* status 1, an interrupt with the status of the signal
ScriptExit(res) ==
    IF res.outcome = "return" THEN SystemExit(IF res.value.v THEN 0 ELSE 1, res)
    ELSE IF res.exc = "KeyboardInterrupt" THEN SystemExit(130, res)
    ELSE SystemExit(1, res)

---------------------------------------------------------------------------
(* The environment of a run *)

\* the values a variable may have: unset, empty, or set
EnvValues(var) ==
    IF var = URL_VAR THEN {Unset, <<>>, OrgUrl, OrgUrlSlash}
    ELSE {Unset, <<>>, <<"value of ", var>>}

AllEnvs ==
    { (URL_VAR :> url) @@ (ID_VAR :> id) @@ (SECRET_VAR :> secret) @@ (TENANT_VAR :> tenant)
      @@ (USER_VAR :> user) @@ (PASSWORD_VAR :> password) @@ (TOKEN_VAR :> token) :
        url \in EnvValues(URL_VAR), id \in EnvValues(ID_VAR),
        secret \in EnvValues(SECRET_VAR), tenant \in EnvValues(TENANT_VAR),
        user \in EnvValues(USER_VAR), password \in EnvValues(PASSWORD_VAR),
        token \in EnvValues(TOKEN_VAR) }

\* the environment in which exactly the variables of `set` are set
EnvOf(set) ==
    [v \in EnvVars |->
        IF v \notin set THEN Unset
        ELSE IF v = URL_VAR THEN OrgUrl ELSE <<"value of ", v>>]

TokenEnv == EnvOf({URL_VAR, TOKEN_VAR})
ServicePrincipalEnv == EnvOf({URL_VAR, ID_VAR, SECRET_VAR, TENANT_VAR})
UserEnv == EnvOf({URL_VAR, ID_VAR, TENANT_VAR, USER_VAR, PASSWORD_VAR})
EveryEnv == EnvOf(EnvVars)
EmptyEnv == EnvOf({})
\* service-principal and user credentials, and no token
CredentialsEnv == EnvOf(EnvVars \ {TOKEN_VAR})

SampleEnvs == {TokenEnv, ServicePrincipalEnv, UserEnv, EveryEnv, EmptyEnv, CredentialsEnv}

Endpoints == {<<"workflows">>}

\* the record a caller posts or patches
SampleData == JObj("name" :> JStr(<<"My Flow">>))

\* OData-EntityId header values, character by character: "u" stands for the
\* characters of the URL and the entity set, "g" for those of the GUID
HeaderChars == {"u", "g", "(", ")"}
HeaderValues == UNION {[1..k -> HeaderChars] : k \in 0..MaxHeaderLen}

NoHeaders == <<>>
EntityIdHeader(h) == "OData-EntityId" :> h

AllResponseHeaders == {NoHeaders} \cup {EntityIdHeader(h) : h \in HeaderValues}

Faults == {"ConnectionError", "Timeout"}
FaultText(exc) ==
    IF exc = "Timeout" THEN <<"HTTPSConnectionPool: Read timed out.">>
    ELSE <<"HTTPSConnectionPool: Max retries exceeded (Name or service not known)">>

\* the answers one request may get in a run
ServerAnswers(w) ==
    UNION { { Response(s, b, h, j) :
                h \in (IF s = 204 THEN w.headers ELSE {NoHeaders}),
                j \in (IF b # <<>> /\ ~ParseJson(b).ok
                       THEN {"RequestException", "ValueError"} ELSE {"RequestException"}) } :
            <<s, b>> \in w.statuses \X w.bodies }
    \cup { Fault(f, FaultText(f)) : f \in w.faults }
    \cup w.interrupts

---------------------------------------------------------------------------
(* The state machine *)

Call(op, endpoint, idp, ans, res) ==
    [op |-> op, endpoint |-> endpoint, idp |-> idp, ans |-> ans, res |-> res]

\* the call asked the identity provider / reached the server
AskedIdp(res) == \E i \in 1..Len(res.net) : res.net[i].kind = "token"
ReachedServer(res) == \E i \in 1..Len(res.net) : res.net[i].kind = "http"

InitWith(envs, wires) ==
    /\ env \in envs
    /\ wire \in wires
    /\ _config = PyNone
    /\ _client = PyNone
    /\ constructed = 0
    /\ last = Call("start", <<>>, "not asked", NoAnswer, Return(PyNone, <<>>))

\* the identity provider's possible answers to the next get_client(): one
\* placeholder when get_client() does not ask it
IdpChoices ==
    IF \E a \in IdpAnswers : AskedIdp(get_client(_config, _client, constructed, env, a).res)
    THEN wire.idp ELSE {"not asked"}

call_get_client ==
    \E answer \in IdpChoices :
        LET eff == get_client(_config, _client, constructed, env, answer)
        IN  /\ eff.constructed <= MaxClients
            /\ _config' = eff.config
            /\ _client' = eff.client
            /\ constructed' = eff.constructed
            /\ last' = Call("get_client", <<>>, answer, NoAnswer, eff.res)
            /\ UNCHANGED <<env, wire>>

\* reset_client(), lines 277-280
reset_client ==
    /\ _client' = PyNone
    /\ last' = Call("reset_client", <<>>, "not asked", NoAnswer, Return(PyNone, <<>>))
    /\ UNCHANGED <<env, wire, _config, constructed>>

\* reset_config(), config.py lines 104-107
reset_config ==
    /\ _config' = PyNone
    /\ last' = Call("reset_config", <<>>, "not asked", NoAnswer, Return(PyNone, <<>>))
    /\ UNCHANGED <<env, wire, _client, constructed>>

\* a caller that holds the cached client calls one of its four methods
call_get ==
    /\ _client # PyNone
    /\ \E endpoint \in Endpoints, ans \in ServerAnswers(wire) :
        LET eff == get(_client, endpoint, <<>>, ans)
        IN  /\ _client' = eff.client
            /\ last' = Call("get", endpoint, "not asked", ans, eff.res)
    /\ UNCHANGED <<env, wire, _config, constructed>>

call_post ==
    /\ _client # PyNone
    /\ \E endpoint \in Endpoints, ans \in ServerAnswers(wire) :
        LET eff == post(_client, endpoint, SampleData, ans)
        IN  /\ _client' = eff.client
            /\ last' = Call("post", endpoint, "not asked", ans, eff.res)
    /\ UNCHANGED <<env, wire, _config, constructed>>

call_patch ==
    /\ _client # PyNone
    /\ \E endpoint \in Endpoints, ans \in ServerAnswers(wire) :
        LET eff == patch(_client, endpoint, SampleData, ans)
        IN  /\ _client' = eff.client
            /\ last' = Call("patch", endpoint, "not asked", ans, eff.res)
    /\ UNCHANGED <<env, wire, _config, constructed>>

call_delete ==
    /\ _client # PyNone
    /\ \E endpoint \in Endpoints, ans \in ServerAnswers(wire) :
        LET eff == delete(_client, endpoint, ans)
        IN  /\ _client' = eff.client
            /\ last' = Call("delete", endpoint, "not asked", ans, eff.res)
    /\ UNCHANGED <<env, wire, _config, constructed>>

\* the command `entity query`
call_query_entity ==
    \E answer \in IdpChoices, entity_name \in Endpoints, opts \in QueryOptions :
        \E ans \in (IF get_client(_config, _client, constructed, env, answer).res.outcome = "return"
                    THEN ServerAnswers(wire) ELSE {NoAnswer}) :
            LET eff == query_entity(_config, _client, constructed, env, answer,
                                   entity_name, opts, ans)
            IN  /\ eff.constructed <= MaxClients
                /\ _config' = eff.config
                /\ _client' = eff.client
                /\ constructed' = eff.constructed
                /\ last' = Call("query_entity", entity_name, answer, ans, eff.res)
                /\ UNCHANGED <<env, wire>>

Next ==
    \/ call_get_client
    \/ reset_client
    \/ reset_config
    \/ call_get
    \/ call_post
    \/ call_patch
    \/ call_delete
    \/ call_query_entity

\* A whole run.  The server of a run answers out of one of three repertoires:
\* every status, every body, or transport faults.
StatusWire ==
    [idp |-> IdpAnswers, statuses |-> {200, 204, 304, 404, 500},
     bodies |-> {Body_Empty, Body_Error},
     headers |-> {NoHeaders, EntityIdHeader(<<"u", "(", "g", ")">>)}, faults |-> {},
     interrupts |-> {}]
BodyWire ==
    [idp |-> IdpAnswers, statuses |-> {200}, bodies |-> Bodies,
     headers |-> {NoHeaders}, faults |-> {}, interrupts |-> {}]
FaultWire ==
    [idp |-> IdpAnswers, statuses |-> {200}, bodies |-> {Body_EmptyObject},
     headers |-> {NoHeaders}, faults |-> Faults, interrupts |-> {}]
Init == InitWith(SampleEnvs, {StatusWire, BodyWire, FaultWire})
Spec == Init /\ [][Next]_vars

\* The factory in every environment (unset, empty and set values).
QuietWire ==
    [idp |-> IdpAnswers, statuses |-> {200}, bodies |-> {Body_EmptyObject},
     headers |-> {NoHeaders}, faults |-> {}, interrupts |-> {}]
InitConfig == InitWith(AllEnvs, {QuietWire})
NextConfig ==
    \/ call_get_client
    \/ reset_client
    \/ reset_config
SpecConfig == InitConfig /\ [][NextConfig]_vars

\* post() against a server that creates records: 204 with an OData-EntityId
\* header value (or none), the same throughout the run.
HeaderWires ==
    {[idp |-> {"token"}, statuses |-> {204}, bodies |-> {Body_Empty},
      headers |-> {h}, faults |-> {}, interrupts |-> {}] : h \in AllResponseHeaders}
InitPost == InitWith({TokenEnv}, HeaderWires)
NextPost ==
    \/ call_get_client
    \/ call_post
SpecPost == InitPost /\ [][NextPost]_vars

\* The commands, each run as a process by main(): a process starts with
\* empty caches (last.op = "start"), runs one command and ends.  The server answers the requests
\* of the command in order, out of the repertoire of the run; an answer is
\* drawn for a request only if the command issues it.
Pad(answers) == answers \o SubSeq(<<NoAnswer, NoAnswer, NoAnswer>>, 1, 3 - Len(answers))

\* the command the process was started for, on the state of the process
Command(op, answer, opts, answers) ==
    CASE op = "list_flows" ->
           list_flows(_config, _client, constructed, env, answer, opts, answers)
      [] op = "list_solution_flows" ->
           list_solution_flows(_config, _client, constructed, env, answer, opts, answers)
      [] op = "list_solution_components" ->
           list_solution_components(_config, _client, constructed, env, answer, opts, answers)
      [] op = "create_flow" ->
           create_flow(_config, _client, constructed, env, answer, opts, answers)
      [] op = "update_flow" ->
           update_flow(_config, _client, constructed, env, answer, opts, answers)

\* the runs of a command that has had the answers `earlier`: it ends without
\* another request, or the server answers its next request in every way
RECURSIVE Runs(_, _, _, _)
Runs(op, answer, opts, earlier) ==
    LET Continue(eff) ==
            IF HttpCount(eff.res.net) > Len(earlier)
            THEN UNION { Runs(op, answer, opts, Append(earlier, a)) :
                           a \in ServerAnswers(wire) }
            ELSE { [answers |-> Pad(earlier), eff |-> eff] }
    IN  Continue(Command(op, answer, opts, Pad(earlier)))

Run(op, options) ==
    \E answer \in IdpChoices, opts \in options :
        \E run \in Runs(op, answer, opts, <<>>) :
            /\ run.eff.constructed <= MaxClients
            /\ _config' = run.eff.config
            /\ _client' = run.eff.client
            /\ constructed' = run.eff.constructed
            /\ last' = Call(op, opts, answer, run.answers, Process(run.eff.res))
            /\ UNCHANGED <<env, wire>>

\* `dataverse flow list`
run_list_flows ==
    /\ last.op = "start"
    /\ Run("list_flows", ListOptions)

\* `dataverse solution flows`
run_list_solution_flows ==
    /\ last.op = "start"
    /\ Run("list_solution_flows", SolutionOptions)

\* `dataverse solution components`
run_list_solution_components ==
    /\ last.op = "start"
    /\ Run("list_solution_components", {o \in SolutionOptions : ~o.table_format})

\* `dataverse flow create`
run_create_flow ==
    /\ last.op = "start"
    /\ Run("create_flow", CreateOptions)

\* `dataverse flow update`
run_update_flow ==
    /\ last.op = "start"
    /\ Run("update_flow", UpdateOptions)

\* The commands that make at most one request: the server answers it in
\* every way, and gives no answer to a command that does not ask
OneAnswer == ServerAnswers(wire) \cup {NoAnswer}

\* the process of such a command ends; `eff` is what the command did
Ran(op, opts, answer, ans, eff) ==
    /\ (HttpCount(eff.res.net) = 0) <=> (ans = NoAnswer)
    /\ eff.constructed <= MaxClients
    /\ _config' = eff.config
    /\ _client' = eff.client
    /\ constructed' = eff.constructed
    /\ last' = Call(op, opts, answer, Pad(<<ans>>), Process(eff.res))
    /\ UNCHANGED <<env, wire>>

\* `dataverse flow get`
run_get_flow ==
    /\ last.op = "start"
    /\ \E answer \in IdpChoices, opts \in FlowIdOptions, ans \in OneAnswer :
           Ran("get_flow", opts, answer, ans,
               get_flow(_config, _client, constructed, env, answer, opts, Pad(<<ans>>)))

\* `dataverse flow activate`
run_activate_flow ==
    /\ last.op = "start"
    /\ \E answer \in IdpChoices, opts \in FlowIdOptions, ans \in OneAnswer :
           Ran("activate_flow", opts, answer, ans,
               activate_flow(_config, _client, constructed, env, answer, opts, Pad(<<ans>>)))

\* `dataverse flow deactivate`
run_deactivate_flow ==
    /\ last.op = "start"
    /\ \E answer \in IdpChoices, opts \in FlowIdOptions, ans \in OneAnswer :
           Ran("deactivate_flow", opts, answer, ans,
               deactivate_flow(_config, _client, constructed, env, answer, opts, Pad(<<ans>>)))

\* `dataverse solution list`
run_list_solutions ==
    /\ last.op = "start"
    /\ \E answer \in IdpChoices, opts \in SolutionListOptions, ans \in OneAnswer :
           Ran("list_solutions", opts, answer, ans,
               list_solutions(_config, _client, constructed, env, answer, opts, Pad(<<ans>>)))

\* `dataverse solution get`
run_get_solution ==
    /\ last.op = "start"
    /\ \E answer \in IdpChoices, opts \in {o \in SolutionOptions : ~o.table_format}, ans \in OneAnswer :
           Ran("get_solution", opts, answer, ans,
               get_solution(_config, _client, constructed, env, answer, opts, Pad(<<ans>>)))

\* `dataverse entity get`
run_get_record ==
    /\ last.op = "start"
    /\ \E answer \in IdpChoices, opts \in GetRecordOptions, ans \in OneAnswer :
           Ran("get_record", opts, answer, ans,
               get_record(_config, _client, constructed, env, answer, opts, Pad(<<ans>>)))

\* `dataverse entity count`
run_count_records ==
    /\ last.op = "start"
    /\ \E answer \in IdpChoices, opts \in CountOptions, ans \in OneAnswer :
           Ran("count_records", opts, answer, ans,
               count_records(_config, _client, constructed, env, answer, opts, Pad(<<ans>>)))

\* `dataverse entity metadata`
run_get_entity_metadata ==
    /\ last.op = "start"
    /\ \E answer \in IdpChoices, opts \in MetadataOptions, ans \in OneAnswer :
           Ran("get_entity_metadata", opts, answer, ans,
               get_entity_metadata(_config, _client, constructed, env, answer, opts, Pad(<<ans>>)))

\* `dataverse auth whoami`
run_whoami ==
    /\ last.op = "start"
    /\ \E answer \in IdpChoices, opts \in {<<>>}, ans \in OneAnswer :
           Ran("whoami", opts, answer, ans,
               whoami(_config, _client, constructed, env, answer, opts, Pad(<<ans>>)))

\* The commands of `dataverse auth`, which ask the identity provider
\* themselves.
AuthCommand(op, answer, opts) ==
    CASE op = "test_auth" -> test_auth(_config, _client, constructed, env, answer)
      [] op = "get_token" ->
           get_token(_config, _client, constructed, env, answer, opts.show_token)

RunAuth(op, options) ==
    \E opts \in options :
        \E answer \in (IF \E a \in IdpAnswers : AskedIdp(AuthCommand(op, a, opts).res)
                       THEN wire.idp ELSE {"not asked"}) :
            LET eff == AuthCommand(op, answer, opts)
            IN  /\ _config' = eff.config
                /\ _client' = eff.client
                /\ constructed' = eff.constructed
                /\ last' = Call(op, opts, answer, <<>>, Process(eff.res))
                /\ UNCHANGED <<env, wire>>

\* `dataverse auth test`
run_test_auth ==
    /\ last.op = "start"
    /\ RunAuth("test_auth", {<<>>})

\* `dataverse auth token`
run_get_token ==
    /\ last.op = "start"
    /\ RunAuth("get_token", {[show_token |-> b] : b \in BOOLEAN})

\* The three places that choose how to authenticate, in every environment.
InitAuth == InitWith(AllEnvs, {QuietWire})
NextAuth ==
    \/ run_test_auth
    \/ run_get_token
    \/ call_get_client
SpecAuth == InitAuth /\ [][NextAuth]_vars

\* The server of a run answers with record sets, or fails in every way.
RecordsWire ==
    [idp |-> IdpAnswers, statuses |-> {200},
     bodies |-> {Body_Empty, Body_NoRecords, Body_Joined, Body_Components,
                 Body_ComponentsNoId, Body_Flows, Body_Record, Body_List},
     headers |-> {NoHeaders}, faults |-> {}, interrupts |-> {}]
FailureWire ==
    [idp |-> IdpAnswers, statuses |-> {200, 404}, bodies |-> {Body_Joined, Body_NotJson},
     headers |-> {NoHeaders}, faults |-> {"Timeout"}, interrupts |-> {Interrupt}]
InitCli == InitWith({TokenEnv, ServicePrincipalEnv, EmptyEnv}, {RecordsWire, FailureWire})
NextCli ==
    \/ run_list_flows
    \/ run_list_solution_flows
    \/ run_list_solution_components
    \/ run_create_flow
    \/ run_update_flow
    \/ run_get_flow
    \/ run_activate_flow
    \/ run_deactivate_flow
    \/ run_list_solutions
    \/ run_get_solution
    \/ run_get_record
    \/ run_count_records
    \/ run_get_entity_metadata
    \/ run_whoami
SpecCli == InitCli /\ [][NextCli]_vars

\* `dataverse flow delete`: the identity provider and the server answer only
\* if the command gets as far as asking them
run_delete_flow ==
    /\ last.op = "start"
    /\ \E opts \in DeleteOptions :
        \E answer \in (IF \E a \in IdpAnswers :
                             AskedIdp(delete_flow(_config, _client, constructed, env,
                                                  a, opts, NoAnswer).res)
                       THEN wire.idp ELSE {"not asked"}) :
            \E ans \in (IF ReachedServer(delete_flow(_config, _client, constructed, env,
                                                     answer, opts, NoAnswer).res)
                        THEN ServerAnswers(wire) ELSE {NoAnswer}) :
                LET eff == delete_flow(_config, _client, constructed, env, answer, opts, ans)
                IN  /\ _config' = eff.config
                    /\ _client' = eff.client
                    /\ constructed' = eff.constructed
                    /\ last' = Call("delete_flow", opts, answer, <<ans>>, Process(eff.res))
                    /\ UNCHANGED <<env, wire>>

\* The delete command in every kind of environment, the server answering with
\* success, with failures and with transport faults.
DeleteWire ==
    [idp |-> IdpAnswers, statuses |-> {200, 204, 404, 500}, bodies |-> {Body_Empty},
     headers |-> {NoHeaders}, faults |-> {"Timeout"}, interrupts |-> {Interrupt}]
InitDelete == InitWith(SampleEnvs, {DeleteWire})
NextDelete == run_delete_flow
SpecDelete == InitDelete /\ [][NextDelete]_vars

\* `dataverse entity query`, run as a process
run_query_entity ==
    /\ last.op = "start"
    /\ \E answer \in IdpChoices, opts \in QueryOptions, ans \in OneAnswer :
           Ran("query_entity", opts, answer, ans,
               query_entity(_config, _client, constructed, env, answer,
                            <<"workflows">>, opts, ans))

\* Every command of the program, each run as a process.
InitCommands == InitWith({TokenEnv, ServicePrincipalEnv, EmptyEnv}, {RecordsWire, FailureWire})
NextCommands ==
    \/ run_test_auth
    \/ run_get_token
    \/ run_whoami
    \/ run_query_entity
    \/ run_get_record
    \/ run_count_records
    \/ run_get_entity_metadata
    \/ run_list_flows
    \/ run_get_flow
    \/ run_create_flow
    \/ run_update_flow
    \/ run_delete_flow
    \/ run_activate_flow
    \/ run_deactivate_flow
    \/ run_list_solutions
    \/ run_get_solution
    \/ run_list_solution_components
    \/ run_list_solution_flows
SpecCommands == InitCommands /\ [][NextCommands]_vars

\* The script, run as a process: the server answers its requests in order,
\* and only those it issues.
RECURSIVE ScriptRuns(_, _)
ScriptRuns(answer, earlier) ==
    LET Continue(eff) ==
            IF HttpCount(eff.res.net) > Len(earlier)
            THEN UNION { ScriptRuns(answer, Append(earlier, a)) : a \in ServerAnswers(wire) }
            ELSE { [answers |-> Pad(earlier), eff |-> eff] }
    IN  Continue(delete_connector(_config, _client, constructed, env, answer, ConnectorId,
                                  Pad(earlier)))

\* `python delete_connector.py <connector_id>`
run_delete_connector ==
    /\ last.op = "start"
    /\ \E answer \in IdpChoices :
        \E run \in ScriptRuns(answer, <<>>) :
            /\ _config' = run.eff.config
            /\ _client' = run.eff.client
            /\ constructed' = run.eff.constructed
            /\ last' = Call("delete_connector", ConnectorId, answer, run.answers,
                            ScriptExit(run.eff.res))
            /\ UNCHANGED <<env, wire>>

\* The server answers with records, with refusals in both spellings, with
\* bodies that are no JSON and with timeouts.
ConnectorWire ==
    [idp |-> IdpAnswers, statuses |-> {200, 204, 400},
     bodies |-> {Body_Record, Body_Error, Body_Referenced, Body_ReferencedCaps, Body_NotJson},
     headers |-> {NoHeaders}, faults |-> {"Timeout"}, interrupts |-> {}]
InitConnector == InitWith({TokenEnv, ServicePrincipalEnv, EmptyEnv}, {ConnectorWire})
NextConnector == run_delete_connector
SpecConnector == InitConnector /\ [][NextConnector]_vars

---------------------------------------------------------------------------
(* Properties *)

ClientMethods == {"get", "post", "patch", "delete"}

\* C1: while a client is cached, every call other than reset_client() keeps
\* that very client cached, constructs no client and asks the identity
\* provider for no token, and get_client() returns the cached client without
\* any network call.
C1_CachedClientIsReused ==
    [][ _client # PyNone =>
          /\ last'.op # "reset_client" =>
                /\ _client' # PyNone
                /\ _client'.id = _client.id
                /\ constructed' = constructed
                /\ ~AskedIdp(last'.res)
          /\ call_get_client => last'.res = Return(ClientRef(_client), <<>>)
      ]_vars

\* a second get_client() in a service-principal environment returned the
\* client without asking for a token
C1_Witness ==
    /\ ~has_token_auth(Config(env))
    /\ last.op = "get_client"
    /\ last.res.outcome = "return"
    /\ last.res.net = <<>>
    /\ last.res.value = ClientRef(_client)

\* C2: with an empty cache get_client() uses the configured token when token
\* auth is complete, else the client-credentials flow when service-principal
\* auth is complete, else the password flow when user auth is complete (and
\* then, the identity provider granting a token, returns a client that
\* carries the token of the password flow).
C2_FirstViableStrategy ==
    [][ (_client = PyNone /\ call_get_client) =>
          LET c == Config(env)
              r == last'.res
          IN  IF has_token_auth(c)
              THEN /\ r.outcome = "return"
                   /\ r.net = <<>>
                   /\ _client'.access_token = c.access_token
              ELSE IF has_service_principal_auth(c)
              THEN /\ Len(r.net) = 1
                   /\ r.net[1].verb = "client_credentials"
                   /\ last'.idp = "token" =>
                        /\ r.outcome = "return"
                        /\ _client'.access_token = IssuedToken("client_credentials")
              ELSE IF has_user_auth(c)
              THEN /\ Len(r.net) = 1
                   /\ r.net[1].verb = "password"
                   /\ last'.idp = "token" =>
                        /\ r.outcome = "return"
                        /\ _client'.access_token = IssuedToken("password")
              ELSE TRUE
      ]_vars

\* the names of the four service-principal variables that are unset or empty
AbsentServicePrincipalVars ==
    {v \in {URL_VAR, ID_VAR, SECRET_VAR, TENANT_VAR} : env[v] \in {Unset, <<>>}}

TokenAndUrlSet == env[TOKEN_VAR] \notin {Unset, <<>>} /\ env[URL_VAR] \notin {Unset, <<>>}

\* C3: when credentials are missing, get_client() raises ClientError, the
\* message has a "  - NAME" line for every missing variable, and no token
\* request and no HTTP request has been made.
C3_MissingCredentialsFailBeforeNetwork ==
    (last.op = "get_client" /\ ~TokenAndUrlSet /\ AbsentServicePrincipalVars # {}) =>
        /\ last.res.outcome = "raise"
        /\ last.res.exc = "ClientError"
        /\ \A v \in AbsentServicePrincipalVars : Contains(last.res.msg, <<"  - ", v, "\n">>)
        /\ last.res.net = <<>>
        /\ _client = PyNone

\* get_client() failed with two or more variables missing
C3_Witness ==
    /\ last.op = "get_client"
    /\ Cardinality(AbsentServicePrincipalVars) >= 2
    /\ ~TokenAndUrlSet
    /\ last.res.outcome = "raise"

\* C4: with the access token and the base URL both set and non-empty,
\* has_token_auth() is true and get_missing_credentials() is the empty list,
\* whatever the other five variables are.
C4_TokenAuthIsSufficient ==
    (_config # PyNone /\ TokenAndUrlSet) =>
        /\ has_token_auth(_config)
        /\ get_missing_credentials(_config) = <<>>

\* the configuration has been read in an environment with token and URL and
\* without client id, client secret and tenant id
C4_Witness ==
    /\ _config # PyNone
    /\ TokenAndUrlSet
    /\ AbsentServicePrincipalVars = {ID_VAR, SECRET_VAR, TENANT_VAR}
    /\ env[USER_VAR] = <<>>

\* C5: when token auth is not satisfiable, get_missing_credentials() lists
\* exactly the absent ones of the four service-principal variables, each
\* once, and never the user name or the password.
C5_MissingIsExactlyTheAbsent ==
    (_config # PyNone /\ ~TokenAndUrlSet) =>
        LET missing == get_missing_credentials(_config)
        IN  /\ {missing[i] : i \in 1..Len(missing)} = AbsentServicePrincipalVars
            /\ Len(missing) = Cardinality(AbsentServicePrincipalVars)

\* the configuration has been read with a token but no URL, tenant id unset,
\* client secret empty and the user name and the password unset
C5_Witness ==
    /\ _config # PyNone
    /\ env[TOKEN_VAR] \notin {Unset, <<>>}
    /\ AbsentServicePrincipalVars = {URL_VAR, SECRET_VAR, TENANT_VAR}
    /\ env[SECRET_VAR] = <<>>
    /\ env[USER_VAR] = Unset /\ env[PASSWORD_VAR] = Unset

\* the last call was one of the client's four methods and got an HTTP response
GotResponse == last.op \in ClientMethods /\ last.ans.kind = "response"

\* the call raised ClientError with the status code and the body in its message
FailedWithStatusAndBody ==
    /\ last.res.outcome = "raise"
    /\ last.res.exc = "ClientError"
    /\ Contains(last.res.msg, Str(last.ans.status))
    /\ Contains(last.res.msg, last.ans.text)

\* C6: every response whose status is not 2xx makes get, post,
\* patch and delete raise ClientError with the status code and the raw body
\* in the message.
C6_Non2xxFails ==
    (GotResponse /\ ~(last.ans.status >= 200 /\ last.ans.status < 300)) =>
        FailedWithStatusAndBody

\* What the code does instead: every response with a 4xx or 5xx status fails
\* so, and a response with any other status is never turned into an HTTP error.
HttpErrorsAre4xx5xx ==
    GotResponse =>
        IF last.ans.status >= 400 /\ last.ans.status < 600
        THEN FailedWithStatusAndBody
        ELSE ~(last.res.outcome = "raise" /\ last.res.msg[1] = "HTTP ")

\* delete() got a 404 with an error body
HttpErrorWitness ==
    /\ last.op = "delete"
    /\ last.ans.kind = "response"
    /\ last.ans.status = 404
    /\ last.ans.text = Body_Error
    /\ last.res.outcome = "raise"

\* C7: a transport failure makes get, post, patch and delete raise
\* ClientError, the exception an HTTP failure raises, with a message that is
\* "Request failed: " followed by the transport error's text and that
\* carries no status code.
C7_TransportFailureIsClientError ==
    (last.op \in ClientMethods /\ last.ans.kind = "exception") =>
        /\ last.res.outcome = "raise"
        /\ last.res.exc = HttpError(last.ans, <<>>).exc
        /\ last.res.msg = <<"Request failed: ">> \o FaultText(last.ans.exc)
        /\ ~Contains(last.res.msg, <<"HTTP ">>)

\* patch() met a timeout
C7_Witness ==
    /\ last.op = "patch"
    /\ last.ans.kind = "exception"
    /\ last.ans.exc = "Timeout"
    /\ last.res.outcome = "raise"

\* a text without parentheses
NoParen(s) == \A i \in 1..Len(s) : s[i] \notin {"(", ")"}

\* h is prefix(guid), the "(" at position k, with a prefix and a guid that
\* are non-empty and have no parentheses
WellFormedEntityId(h, k) ==
    /\ k \in 2..(Len(h) - 2)
    /\ h[k] = "("
    /\ h[Len(h)] = ")"
    /\ NoParen(SubSeq(h, 1, k - 1))
    /\ NoParen(SubSeq(h, k + 1, Len(h) - 1))

PostGot204 == last.op = "post" /\ last.ans.kind = "response" /\ last.ans.status = 204

\* C8: post() on a 204 whose OData-EntityId header is <url>/<set>(<guid>)
\* returns {"id": <guid>}.
C8_EntityIdIsExtracted ==
    (PostGot204 /\ "OData-EntityId" \in DOMAIN last.ans.headers) =>
        LET h == last.ans.headers["OData-EntityId"]
        IN  \A k \in 1..Len(h) :
                WellFormedEntityId(h, k) =>
                    last.res = Return(JObj("id" :> JStr(SubSeq(h, k + 1, Len(h) - 1))),
                                      last.res.net)

\* post() got a 204 with the header u(gg)
C8_Witness ==
    /\ PostGot204
    /\ last.ans.headers = EntityIdHeader(<<"u", "(", "g", "g", ")">>)
    /\ last.res.outcome = "return"

\* absent, empty, without "(", with a "(" that is never closed, or with
\* nothing between the first "(" and the ")" after it
MalformedEntityId(headers) ==
    \/ "OData-EntityId" \notin DOMAIN headers
    \/ LET h == headers["OData-EntityId"]
       IN  \/ h = <<>>
           \/ \A i \in 1..Len(h) : h[i] # "("
           \/ \E k \in 1..Len(h) :
                /\ h[k] = "(" /\ \A j \in 1..(k - 1) : h[j] # "("
                /\ \/ \A j \in (k + 1)..Len(h) : h[j] # ")"
                   \/ (k < Len(h) /\ h[k + 1] = ")")

\* C9: post() on a 204 whose OData-EntityId header is absent or
\* malformed returns the empty object.
C9_MalformedHeaderGivesEmptyObject ==
    (PostGot204 /\ MalformedEntityId(last.ans.headers)) =>
        last.res = Return(JObj(<<>>), last.res.net)

\* C10: a successful GET whose body is a {"value": [...]} wrapper hands the
\* command the list under "value" (for the body {"value": [{"a": 1}],
\* "@odata.count": 1} the list [{"a": 1}]), and one whose body is empty or {}
\* hands it the empty object.
C10_ListIsUnwrapped ==
    (/\ last.op = "query_entity"
     /\ last.ans.kind = "response"
     /\ ~raise_for_status(last.ans.status)) =>
        /\ last.ans.text = Body_List =>
              last.res = Return(JArr(<<JObj("a" :> JNum(1))>>), last.res.net)
        /\ last.ans.text = Body_ListNoCount =>
              last.res = Return(JArr(<<JObj("a" :> JNum(1)), JObj("a" :> JNum(2))>>),
                                last.res.net)
        /\ last.ans.text \in {Body_Empty, Body_EmptyObject} =>
              last.res = Return(JObj(<<>>), last.res.net)

\* `entity query` got the wrapper with a count and printed a list
C10_Witness ==
    /\ last.op = "query_entity"
    /\ last.ans.text = Body_List
    /\ last.res.outcome = "return"
    /\ last.res.value.t = "array"

\* the request that the last call of a client method put on the wire
LastRequest == last.res.net[1]

BaseHeaders == {"Authorization", "Accept", "OData-MaxVersion", "OData-Version"}

\* C11: every request of a client carries Authorization, Accept,
\* OData-MaxVersion and OData-Version; it carries Content-Type:
\* application/json exactly when it is a POST or a PATCH, and Prefer:
\* return=representation exactly when it is a POST, whatever calls were made
\* on the client before.
C11_HeadersPerRequest ==
    last.op \in ClientMethods =>
        LET h == LastRequest.headers
        IN  /\ BaseHeaders \subseteq DOMAIN h
            /\ h["Authorization"] = <<"Bearer ">> \o _client.access_token
            /\ "Content-Type" \in DOMAIN h <=> LastRequest.verb \in {"POST", "PATCH"}
            /\ "Prefer" \in DOMAIN h <=> LastRequest.verb = "POST"

\* What the code does instead: the four base headers go with every request,
\* a POST carries Content-Type and Prefer and a PATCH carries Content-Type;
\* a header once set stays on the session for every later request.
HeadersAccumulate ==
    [][ (_client # PyNone /\ _client' # PyNone /\ _client'.id = _client.id) =>
          /\ DOMAIN _client.headers \subseteq DOMAIN _client'.headers
          /\ last'.op \in ClientMethods =>
                /\ last'.res.net[1].headers = _client'.headers
                /\ BaseHeaders \subseteq DOMAIN _client'.headers
                /\ last'.op = "post" => {"Content-Type", "Prefer"} \subseteq DOMAIN _client'.headers
                /\ last'.op = "patch" => "Content-Type" \in DOMAIN _client'.headers
      ]_vars

\* a GET went out with the Prefer header of an earlier POST
HeadersAccumulateWitness ==
    /\ last.op = "get"
    /\ "Prefer" \in DOMAIN LastRequest.headers

\* the command that ran last, its options, the answers to its requests,
\* and the requests it issued
SolutionFlowsRan == last.op = "list_solution_flows"
Requested(endpoint) ==
    \E i \in 1..Len(last.res.net) :
        /\ last.res.net[i].kind = "http"
        /\ last.res.net[i].url = _client.api_base \o <<"/">> \o endpoint

\* the answer to the solutioncomponents query of the last run: the query is
\* the second request when the name was looked up, else the first
ComponentsAnswer ==
    IF Truthy(last.endpoint.name) /\ ~Truthy(last.endpoint.solution_id)
    THEN last.ans[2] ELSE last.ans[1]

\* the answer is a successful response with an empty record set (an empty
\* list, an empty object or an empty body)
EmptySet(ans) ==
    /\ ans.kind = "response" /\ ~raise_for_status(ans.status)
    /\ \/ ans.text = <<>>
       \/ /\ ParseJson(ans.text).ok
          /\ ~PyTruthy(format_response(ParseJson(ans.text).value))

\* the answer is a successful response with a list of records of which none
\* has an objectid (absent, null or empty)
NoObjectIds(ans) ==
    /\ ans.kind = "response" /\ ~raise_for_status(ans.status) /\ ans.text # <<>>
    /\ ParseJson(ans.text).ok
    /\ LET components == format_response(ParseJson(ans.text).value)
       IN  /\ components.t = "array"
           /\ \A i \in 1..Len(components.v) :
                /\ components.v[i].t = "object"
                /\ ~PyTruthy(DictGet(components.v[i].v, "objectid", PyNone))

\* C12: when `solution flows` gets an empty set, or components without an
\* objectid, from its solutioncomponents query, it prints the empty list,
\* ends with exit status 0 and issues no request to workflows.
C12_NoComponentsNoSecondQuery ==
    (/\ SolutionFlowsRan
     /\ Requested(<<"solutioncomponents">>)
     /\ EmptySet(ComponentsAnswer) \/ NoObjectIds(ComponentsAnswer)) =>
        /\ last.res.value = JArr(<<>>)
        /\ last.res.status = 0
        /\ ~Requested(<<"workflows">>)
        /\ last.res.net[Len(last.res.net)].url = _client.api_base \o <<"/", "solutioncomponents">>

\* `solution flows --name` found the solution and got components that have
\* no objectid
C12_Witness ==
    /\ SolutionFlowsRan
    /\ Requested(<<"solutions">>)
    /\ Requested(<<"solutioncomponents">>)
    /\ ComponentsAnswer.text = Body_ComponentsNoId
    /\ last.res.status = 0

\* the commands of SpecCli, each run as a process (its options are in
\* last.endpoint, the answers to its requests in last.ans, the process's end
\* in last.res)
CliCommands == {"list_flows", "list_solution_flows", "list_solution_components",
                "create_flow", "update_flow", "get_flow", "activate_flow",
                "deactivate_flow", "list_solutions", "get_solution", "get_record",
                "count_records", "get_entity_metadata", "whoami"}

\* the user interrupted the run while a request was in flight
RunInterrupted == \E i \in 1..Len(last.ans) : last.ans[i].kind = "interrupt"

\* get_client() failed: credentials are missing, or the identity provider
\* gave no token
NoClient == _client = PyNone

\* a request of the run met a transport failure or a 4xx/5xx response
RequestFailedInRun ==
    \E i \in 1..Len(last.ans) :
        \/ last.ans[i].kind = "exception"
        \/ last.ans[i].kind = "response" /\ raise_for_status(last.ans[i].status)

\* the command line is invalid: `flow update` without an update parameter,
\* `flow create` with an unsupported trigger type, a solution command with
\* neither --id nor --name
InvalidInput ==
    \/ /\ last.op = "update_flow"
       /\ ~Truthy(last.endpoint.name)
       /\ ~Truthy(last.endpoint.description)
       /\ ~Truthy(last.endpoint.state)
    \/ /\ last.op = "create_flow"
       /\ Lower(last.endpoint.trigger) \notin {<<"http">>, <<"manual">>}
    \/ /\ last.op \in {"list_solution_flows", "list_solution_components", "get_solution"}
       /\ ~Truthy(last.endpoint.name)
       /\ ~Truthy(last.endpoint.solution_id)

\* the command ran to its end and printed its result
Succeeded == last.res.exc = ""

\* every command of the program
Commands == CliCommands \cup {"query_entity", "delete_flow", "test_auth", "get_token"}

\* the commands of `auth` that read the configuration themselves, without
\* get_client()
AuthCommands == {"test_auth", "get_token"}

\* `flow delete` without --yes was interrupted (Ctrl-C) at its prompt
PromptInterrupted ==
    last.op = "delete_flow" /\ ~last.endpoint.confirm /\ last.endpoint.reply = "interrupt"

\* `flow delete` without --yes ended at its prompt, before any credential
\* was looked at
EndedAtPrompt ==
    last.op = "delete_flow" /\ ~last.endpoint.confirm /\ last.endpoint.reply # "y"

\* the environment holds no usable credentials: no token with the URL, and
\* a service-principal variable is absent
NoCredentials == ~TokenAndUrlSet /\ AbsentServicePrincipalVars # {}

\* the identity provider was asked for a token and gave none
TokenRefused == last.idp \notin {"not asked", "token"}

\* the run failed on its configuration: the credentials are missing or the
\* identity provider refused them
ConfigError ==
    \/ last.op \in AuthCommands /\ (NoCredentials \/ TokenRefused)
    \/ last.op \notin AuthCommands /\ ~EndedAtPrompt /\ NoClient

\* the exit statuses of a run that was not interrupted
ExitCodesUninterrupted ==
    /\ Succeeded => last.res.status = 0
    /\ last.res.status = 0 => Succeeded
    /\ ConfigError => last.res.status = 2
    /\ (~ConfigError /\ RequestFailedInRun) => last.res.status = 2
    /\ (~ConfigError /\ InvalidInput) => last.res.status = 1
    /\ last.res.status \in {0, 1, 2}

\* C13: a run of any command exits with 0 when the command succeeds, with 1
\* on a validation or generic failure, with 2 on a client or configuration
\* error and with 130 when it is interrupted; no failure exits with 0.
C13_ExitCodes ==
    last.op \in Commands =>
        IF RunInterrupted \/ PromptInterrupted THEN last.res.status = 130
        ELSE ExitCodesUninterrupted

\* What the code does instead: `auth test` and `auth token` exit with 1 when
\* the credentials are missing or refused, and an interrupt at the prompt of
\* `flow delete` exits with 1; every other exit status is as stated.
ExitCodesAsCoded ==
    last.op \in Commands =>
        IF RunInterrupted THEN last.res.status = 130
        ELSE IF PromptInterrupted THEN last.res.status = 1
        ELSE /\ Succeeded => last.res.status = 0
             /\ last.res.status = 0 => Succeeded
             /\ ConfigError => last.res.status = (IF last.op \in AuthCommands THEN 1 ELSE 2)
             /\ (~ConfigError /\ RequestFailedInRun) => last.res.status = 2
             /\ (~ConfigError /\ InvalidInput) => last.res.status = 1
             /\ last.res.status \in {0, 1, 2}

\* `auth test` without any credentials exited with 1
ExitCodesAuthWitness ==
    /\ last.op = "test_auth"
    /\ env = EmptyEnv
    /\ last.res.net = <<>>
    /\ last.res.status = 1

\* `flow delete` was interrupted at its prompt and exited with 1
ExitCodesPromptWitness ==
    /\ PromptInterrupted
    /\ last.res.net = <<>>
    /\ last.res.status = 1

\* `flow list` was interrupted while its request was in flight and the
\* process ended with 130
ExitCodesInterruptWitness ==
    /\ last.op = "list_flows"
    /\ ~NoClient
    /\ RunInterrupted
    /\ last.res.status = 130

\* `flow update` without an update parameter exited with 1
ExitCodesWitness ==
    /\ last.op = "update_flow"
    /\ ~NoClient
    /\ InvalidInput
    /\ last.res.status = 1

\* the HTTP verb of each client method
VerbOf(op) ==
    CASE op = "get" -> "GET" [] op = "post" -> "POST" [] op = "patch" -> "PATCH"
      [] OTHER -> "DELETE"

\* C14: a call of get, post, patch or delete makes exactly one network call,
\* the HTTP request of its verb, whether it succeeds or fails; a get_client()
\* that authenticates makes exactly one token request, and when that fails
\* get_client() raises and leaves no client (no second attempt, no other
\* strategy); `entity query` makes at most one token request and one HTTP
\* request.
C14_NoRetries ==
    /\ last.op \in ClientMethods =>
          /\ Len(last.res.net) = 1
          /\ last.res.net[1].kind = "http"
          /\ last.res.net[1].verb = VerbOf(last.op)
    /\ last.op = "get_client" =>
          /\ Len(last.res.net) <= 1
          /\ AskedIdp(last.res) =>
                /\ last.res.net[1].verb = "client_credentials"
                /\ last.idp # "token" => (last.res.outcome = "raise" /\ _client = PyNone)
    /\ last.op = "query_entity" =>
          /\ Len(last.res.net) <= 2
          /\ HttpCount(last.res.net) <= 1
          /\ Len(last.res.net) - HttpCount(last.res.net) <= 1

\* get_client() failed after its one token request was rejected, with the
\* credentials of the password flow configured as well
C14_Witness ==
    /\ last.op = "get_client"
    /\ has_user_auth(Config(env))
    /\ last.idp = "error_description"
    /\ Len(last.res.net) = 1
    /\ last.res.outcome = "raise"

\* the name get_client() gives the strategy of a grant in its error messages
StrategyName(grant) ==
    IF grant = "client_credentials" THEN "service principal" ELSE "user credentials"

\* C15: when get_client() asks the identity provider and gets no token (a
\* result without access_token, or an exception of the exchange), it raises
\* ClientError and leaves no client; the message names the strategy whose
\* token request was made, and it contains the result's error_description
\* if there is one, else the result's error code if there is one, and the
\* exception's text if the exchange raised.
C15_AuthErrorNamesStrategy ==
    (last.op = "get_client" /\ AskedIdp(last.res) /\ last.idp # "token") =>
        LET grant == last.res.net[1].verb
            r     == IdpResult(last.idp, grant)
        IN  /\ last.res.outcome = "raise"
            /\ last.res.exc = "ClientError"
            /\ _client = PyNone
            /\ Contains(last.res.msg, <<"Failed to authenticate with ", StrategyName(grant)>>)
            /\ r.raised => Contains(last.res.msg, r.str)
            /\ (~r.raised /\ "error_description" \in DOMAIN r.result) =>
                  Contains(last.res.msg, r.result["error_description"])
            /\ (~r.raised /\ "error_description" \notin DOMAIN r.result
                /\ "error" \in DOMAIN r.result) =>
                  Contains(last.res.msg, r.result["error"])

\* the identity provider rejected the client secret with a description
C15_Witness ==
    /\ last.op = "get_client"
    /\ last.idp = "error_description"
    /\ AskedIdp(last.res)
    /\ Contains(last.res.msg, <<"AADSTS7000215: Invalid client secret">>)

\* C16: the cached client is cleared by reset_client() and by nothing else,
\* and no call replaces it: a client is constructed only by a get_client()
\* that finds the cache empty, so at most once between two resets; after
\* reset_client() the cache is empty, and the next successful get_client()
\* selects the strategy and authenticates again (it asks the identity provider
\* unless the token is configured) and returns a client constructed anew;
\* get, post, patch and delete, successful or failed, keep the cached client.
C16_OnlyResetInvalidates ==
    [][ /\ last'.op = "reset_client" => _client' = PyNone
        /\ (_client # PyNone /\ last'.op # "reset_client") =>
              (_client' # PyNone /\ _client'.id = _client.id)
        /\ last'.op \in ClientMethods =>
              (_client # PyNone /\ _client' # PyNone /\ _client'.id = _client.id)
        /\ constructed' # constructed =>
              /\ _client = PyNone
              /\ last'.op \in {"get_client", "query_entity"}
              /\ constructed' = constructed + 1
        /\ (_client = PyNone /\ last'.op = "get_client" /\ last'.res.outcome = "return") =>
              /\ constructed' = constructed + 1
              /\ _client' # PyNone
              /\ _client'.id = constructed'
              /\ last'.res.value = ClientRef(_client')
              /\ IF has_token_auth(Config(env))
                 THEN _client'.access_token = env[TOKEN_VAR]
                 ELSE /\ AskedIdp(last'.res)
                      /\ _client'.access_token = IssuedToken(last'.res.net[1].verb)
      ]_vars

\* after a reset, get_client() authenticated again and returned the second
\* client, on which a delete() then failed
C16_Witness ==
    /\ constructed = 2
    /\ _client # PyNone
    /\ _client.id = 2
    /\ ~has_token_auth(Config(env))
    /\ last.op = "delete"
    /\ last.res.outcome = "raise"

\* the trigger type is neither http nor manual, in any spelling of the case
UnsupportedTrigger(trigger) == Lower(trigger) \notin {<<"http">>, <<"manual">>}

\* C17: `flow create` with a trigger type other than http or manual (in any
\* case; scheduled is one) exits with a nonzero status and issues no HTTP
\* request, so no POST to workflows; when the client was obtained, the run
\* ends with the message "Unsupported trigger type: <trigger>" and the status
\* of a validation failure, 1.
C17_UnsupportedTriggerIsUserError ==
    (last.op = "create_flow" /\ UnsupportedTrigger(last.endpoint.trigger)) =>
        /\ last.res.status # 0
        /\ HttpCount(last.res.net) = 0
        /\ _client # PyNone =>
              /\ last.res.status = 1
              /\ last.res.msg = <<"Unsupported trigger type: ">> \o last.endpoint.trigger

\* `flow create --trigger Scheduled` ended as a validation failure
C17_Witness ==
    /\ last.op = "create_flow"
    /\ last.endpoint.trigger = <<"Scheduled">>
    /\ _client # PyNone
    /\ last.res.status = 1

\* the commands that may issue several API calls in a row
MultiCallCommands == {"list_flows", "list_solution_flows", "list_solution_components"}

\* the i-th API call of the last run was issued and failed: it met a
\* transport failure, a 4xx/5xx response or a body that is not JSON, or the
\* user interrupted it
CallFailed(i) ==
    /\ HttpCount(last.res.net) >= i
    /\ \/ last.ans[i].kind \in {"exception", "interrupt"}
       \/ /\ last.ans[i].kind = "response"
          /\ \/ raise_for_status(last.ans[i].status)
             \/ last.ans[i].text # <<>> /\ ~ParseJson(last.ans[i].text).ok

\* C18: when an API call of `flow list --solution`, `solution components
\* --name` or `solution flows --name` fails, it is the last API call of the
\* run, and the run exits with a nonzero status and prints no result.
C18_FailureAbortsCommand ==
    last.op \in MultiCallCommands =>
        \A i \in 1..Len(last.ans) :
            CallFailed(i) =>
                /\ HttpCount(last.res.net) = i
                /\ last.res.status # 0
                /\ last.res.value.t \notin {"array", "object"}

\* `solution flows --name` found the solution, and its second call, the
\* solutioncomponents query, got a 404
C18_Witness ==
    /\ last.op = "list_solution_flows"
    /\ Truthy(last.endpoint.name) /\ ~Truthy(last.endpoint.solution_id)
    /\ last.ans[1].kind = "response" /\ last.ans[1].status = 200
    /\ CallFailed(2)
    /\ last.ans[2].status = 404
    /\ last.res.status = 2

\* a step of one of the places that choose a strategy: get_client() on an
\* empty cache, `auth token` and `auth test`
Chooses ==
    \/ last'.op \in {"get_token", "test_auth"}
    \/ last'.op = "get_client" /\ _client = PyNone

\* the strategy the last call chose, as its token request and its output
\* show; "none" if it chose none
Chosen ==
    IF AskedIdp(last.res)
    THEN (IF last.res.net[1].verb = "client_credentials" THEN "service-principal" ELSE "user")
    ELSE IF last.op = "get_client" /\ last.res.outcome = "return" THEN "token"
    ELSE IF last.op = "get_token" /\ last.res.msg = <<"Using configured access token">>
    THEN "token"
    ELSE IF last.op = "test_auth" /\ last.res.msg = <<"Using provided access token">>
    THEN "token"
    ELSE "none"

\* the first satisfiable strategy in the order token > service-principal > user
FirstByPrecedence(c) ==
    IF has_token_auth(c) THEN "token"
    ELSE IF has_service_principal_auth(c) THEN "service-principal"
    ELSE IF has_user_auth(c) THEN "user"
    ELSE "none"

\* C19: get_client(), `auth token` and `auth test` each choose the first
\* satisfiable strategy in the order token > service-principal > user, and
\* so the same one in every configuration.
C19_SamePrecedenceEverywhere ==
    [][Chooses => Chosen' = FirstByPrecedence(Config(env))]_vars

\* What the code does instead: get_client() and `auth token` choose the token
\* if it is configured and else the service principal if it is complete, and
\* never the user credentials; `auth test` chooses the service principal if it
\* is complete, and else, if a token is configured, the user credentials if
\* they are complete and else the token.
StrategiesAsCoded ==
    [][ Chooses =>
          LET c == Config(env)
          IN  Chosen' =
                IF last'.op = "test_auth"
                THEN (IF has_service_principal_auth(c) THEN "service-principal"
                      ELSE IF has_token_auth(c) /\ has_user_auth(c) THEN "user"
                      ELSE IF has_token_auth(c) THEN "token" ELSE "none")
                ELSE (IF has_token_auth(c) THEN "token"
                      ELSE IF has_service_principal_auth(c) THEN "service-principal"
                      ELSE "none")
      ]_vars

\* `auth test` asked the identity provider although a token is configured
StrategiesWitness ==
    /\ last.op = "test_auth"
    /\ has_token_auth(Config(env))
    /\ Chosen = "service-principal"

\* the environment variable is set to a non-empty value
Present(var) == env[var] \notin {Unset, <<>>}

\* C20: for the configuration read from any environment,
\* has_service_principal_auth() is true exactly when URL, client id, client
\* secret and tenant id are present, has_user_auth() exactly when URL, client
\* id, tenant id, user name and password are present, has_token_auth()
\* exactly when access token and URL are present; a variable set to the
\* empty string is not present.
C20_HasAuthIffAllPresent ==
    _config # PyNone =>
        /\ has_service_principal_auth(_config)
              <=> \A v \in {URL_VAR, ID_VAR, SECRET_VAR, TENANT_VAR} : Present(v)
        /\ has_user_auth(_config)
              <=> \A v \in {URL_VAR, ID_VAR, TENANT_VAR, USER_VAR, PASSWORD_VAR} : Present(v)
        /\ has_token_auth(_config)
              <=> \A v \in {TOKEN_VAR, URL_VAR} : Present(v)

\* the configuration was read with everything set but an empty password and
\* an empty token: the service principal is complete, the other two are not
C20_Witness ==
    /\ _config # PyNone
    /\ env[PASSWORD_VAR] = <<>>
    /\ env[TOKEN_VAR] = <<>>
    /\ \A v \in EnvVars \ {PASSWORD_VAR, TOKEN_VAR} : Present(v)
    /\ has_service_principal_auth(_config)
    /\ ~has_user_auth(_config)
    /\ ~has_token_auth(_config)


\* the configuration get_client() works on: the cached one, else the
\* environment's
CurrentConfig == get_config(_config, env)

\* C21: a get_client() that raises found the cache empty and leaves it empty,
\* having constructed no client; the get_client() that follows a failed one
\* checks the credentials again and, when none is missing and no token is
\* configured, asks the identity provider again: it returns a client
\* constructed anew if a token is issued this time, and raises on this
\* attempt's own answer otherwise.
C21_FailureLeavesCacheEmpty ==
    [][ /\ (last'.op = "get_client" /\ last'.res.outcome = "raise") =>
              /\ _client = PyNone
              /\ _client' = PyNone
              /\ constructed' = constructed
        /\ (last.op = "get_client" /\ last.res.outcome = "raise"
            /\ last'.op = "get_client") =>
              LET c == CurrentConfig
              IN  IF get_missing_credentials(c) # <<>>
                  THEN /\ last'.res = Raise("ClientError",
                                            MissingMessage(get_missing_credentials(c)), <<>>)
                       /\ ~AskedIdp(last'.res)
                  ELSE IF has_token_auth(c)
                  THEN last'.res.outcome = "return"
                  ELSE /\ AskedIdp(last'.res)
                       /\ last'.idp = "token" =>
                             /\ last'.res.outcome = "return"
                             /\ _client' # PyNone
                             /\ _client'.id = constructed + 1
                             /\ last'.res.value = ClientRef(_client')
                       /\ last'.idp # "token" =>
                             /\ last'.res.outcome = "raise"
                             /\ last'.res.msg =
                                  get_client(_config, PyNone, constructed, env, last'.idp).res.msg
      ]_vars

\* get_client() failed because the identity provider issued no token: the
\* configuration is cached, the client is not
C21_Witness ==
    /\ last.op = "get_client"
    /\ last.res.outcome = "raise"
    /\ AskedIdp(last.res)
    /\ last.idp = "error"
    /\ _client = PyNone
    /\ _config # PyNone
    /\ constructed = 0

\* the records of a successful answer with a JSON body, None for any other
\* answer
Records(ans) ==
    IF ans.kind = "response" /\ ~raise_for_status(ans.status) /\ ans.text # <<>>
       /\ ParseJson(ans.text).ok
    THEN format_response(ParseJson(ans.text).value)
    ELSE PyNone

\* the i-th HTTP request of the last run (the token request, if any, comes
\* before them)
HttpAt(i) == last.res.net[Len(last.res.net) - HttpCount(last.res.net) + i]

\* the positions in `flows` of the flows whose solutionid is `id`
Matching(flows, id) ==
    {i \in 1..Len(flows) : DictGet(flows[i].v, "solutionid", PyNone) = id}

\* the flows at these positions, in the order fetched
Selected(flows, positions) ==
    [j \in 1..Cardinality(positions) |->
        flows[CHOOSE i \in positions : Cardinality({m \in positions : m <= i}) = j]]

\* what list_flows hands to the printer for a list of flows
Shown(flows) ==
    IF last.endpoint.table_format
    THEN JArr([i \in 1..Len(flows) |-> AddState(flows[i])])
    ELSE JArr(flows)

\* `flow list --solution NAME` fetched a list of flows
ListedForSolution ==
    /\ last.op = "list_flows"
    /\ Truthy(last.endpoint.solution)
    /\ HttpCount(last.res.net) >= 1
    /\ Records(last.ans[1]).t = "array"
    /\ \A i \in 1..Len(Records(last.ans[1]).v) : Records(last.ans[1]).v[i].t = "object"

\* C22: `flow list --solution NAME` that fetched a list of flows issued two
\* requests, to workflows and then to solutions.  When the lookup answers
\* with a list whose first record has a solutionid, the command ends with
\* status 0 and shows exactly the fetched flows with that solutionid, in the
\* order fetched; when it answers with an empty set, the command ends with
\* status 0 and shows all the fetched flows.
C22_FilterBySolutionName ==
    ListedForSolution =>
        LET flows     == Records(last.ans[1]).v
            solutions == Records(last.ans[2])
        IN  /\ HttpCount(last.res.net) = 2
            /\ HttpAt(1).url = _client.api_base \o <<"/", "workflows">>
            /\ HttpAt(2).url = _client.api_base \o <<"/", "solutions">>
            /\ HttpAt(2).params["$filter"]
                 = <<"friendlyname eq '">> \o last.endpoint.solution \o <<"'">>
            /\ (/\ solutions.t = "array" /\ solutions.v # <<>>
                /\ solutions.v[1].t = "object"
                /\ "solutionid" \in DOMAIN solutions.v[1].v) =>
                  /\ last.res.status = 0
                  /\ last.res.value
                       = Shown(Selected(flows, Matching(flows, solutions.v[1].v["solutionid"])))
            /\ EmptySet(last.ans[2]) =>
                  /\ last.res.status = 0
                  /\ last.res.value = Shown(flows)

\* of the two flows fetched, the one of the solution found is shown
C22_Witness ==
    /\ ListedForSolution
    /\ last.ans[1].text = Body_Flows
    /\ last.ans[2].text = Body_Joined
    /\ last.res.status = 0
    /\ Len(last.res.value.v) = 1
    /\ last.res.value.v[1].v["workflowid"] = JStr(<<"w1">>)

\* the solution is not found and both flows fetched are shown
C22_WitnessNotFound ==
    /\ ListedForSolution
    /\ last.ans[1].text = Body_Flows
    /\ last.ans[2].text = Body_NoRecords
    /\ last.res.status = 0
    /\ Len(last.res.value.v) = 2

\* the DELETE requests among the network calls of the last run
DeleteRequests ==
    {i \in 1..Len(last.res.net) :
        last.res.net[i].kind = "http" /\ last.res.net[i].verb = "DELETE"}

\* `flow delete` ran without --yes and the reply at the prompt was not a yes
Declined == last.op = "delete_flow" /\ ~last.endpoint.confirm /\ last.endpoint.reply # "y"

\* C23: when `flow delete` runs without --yes and the user does not confirm,
\* the process ends without any network call and without get_client(): no
\* configuration is loaded, no client is constructed, the identity provider
\* is not asked.  A DELETE request is issued only with --yes or after a yes at
\* the prompt, and then it is the one request of the run, to the flow's
\* record, made once get_client() has returned a client.
C23_ConfirmBeforeAnything ==
    last.op = "delete_flow" =>
        /\ Declined =>
              /\ last.res.net = <<>>
              /\ last.idp = "not asked"
              /\ _config = PyNone
              /\ _client = PyNone
              /\ constructed = 0
        /\ DeleteRequests # {} =>
              /\ last.endpoint.confirm \/ last.endpoint.reply = "y"
              /\ _client # PyNone
              /\ DeleteRequests = {Len(last.res.net)}
              /\ HttpCount(last.res.net) = 1
              /\ last.res.net[Len(last.res.net)].url
                   = _client.api_base \o <<"/", "workflows(">> \o last.endpoint.flow_id \o <<")">>
        /\ (~Declined /\ _client # PyNone) => DeleteRequests # {}

\* with a token configured, the user answered no at the prompt
C23_Witness ==
    /\ Declined
    /\ last.endpoint.reply = "n"
    /\ has_token_auth(Config(env))
    /\ last.res.net = <<>>
    /\ last.res.outcome = "SystemExit"

\* the client raises its error on this answer to a request of this verb: a
\* transport fault, a 4xx or 5xx status, or a body it has to decode and that
\* is no JSON (in a build whose decoding error is a RequestException)
Fails(ans, verb) ==
    \/ ans.kind = "exception"
    \/ ans.kind = "response" /\ raise_for_status(ans.status)
    \/ /\ ans.kind = "response" /\ ~raise_for_status(ans.status)
       /\ verb = "GET" \/ (verb = "POST" /\ ans.status # 204)
       /\ ans.text # <<>> /\ ~ParseJson(ans.text).ok
       /\ ans.json_error = "RequestException"

\* the i-th request of the last run has this verb and goes to this endpoint
RequestIs(i, verb, endpoint) ==
    /\ HttpAt(i).verb = verb
    /\ HttpAt(i).url = _client.api_base \o <<"/">> \o endpoint

\* the lines the script printed
SuccessReported == Contains(last.res.msg, <<"Successfully deleted connector">>)
GuidancePrinted ==
    Contains(last.res.msg, <<"The connector has dependencies that must be removed first.">>)

\* the server refused the request with a message that says "referenced by"
\* in some spelling
RefusedAsReferenced(ans) ==
    /\ ans.kind = "response" /\ raise_for_status(ans.status)
    /\ ans.text \in {Body_Referenced, Body_ReferencedCaps}

\* C24: the script's requests are, in this order, GET connectors(id), POST
\* RetrieveDependenciesForDelete and DELETE connectors(id).  When the GET
\* fails no other request is made; when the POST fails the DELETE is made
\* all the same.  The script reports success and exits with 0 exactly when
\* the DELETE was made and did not fail, and it prints the guidance about
\* dependencies exactly when the call that made it fail (the GET or the
\* DELETE) was refused with a message containing "referenced by" in any
\* spelling of the case.  Without a client it makes no request and fails.
C24_ConnectorScriptOrder ==
    last.op = "delete_connector" =>
        LET requests == HttpCount(last.res.net)
        IN  /\ requests <= 3
            /\ requests >= 1 => RequestIs(1, "GET", <<"connectors(">> \o ConnectorId \o <<")">>)
            /\ requests >= 2 => RequestIs(2, "POST", <<"RetrieveDependenciesForDelete">>)
            /\ requests = 3 => RequestIs(3, "DELETE", <<"connectors(">> \o ConnectorId \o <<")">>)
            /\ (requests >= 1 /\ Fails(last.ans[1], "GET")) =>
                  (requests = 1 /\ last.res.status = 1)
            /\ (requests >= 2 /\ Fails(last.ans[2], "POST")) => requests = 3
            /\ last.res.status = 0 <=> (requests = 3 /\ ~Fails(last.ans[3], "DELETE"))
            /\ SuccessReported <=> last.res.status = 0
            /\ GuidancePrinted <=>
                  /\ requests \in {1, 3}
                  /\ RefusedAsReferenced(last.ans[requests])
            /\ _client = PyNone => (requests = 0 /\ last.res.status = 1)

\* the check for dependencies timed out and the DELETE was refused because
\* the connector is "Referenced By" a flow: the guidance is printed
C24_Witness ==
    /\ last.op = "delete_connector"
    /\ HttpCount(last.res.net) = 3
    /\ last.ans[2].kind = "exception"
    /\ last.ans[3].status = 400
    /\ last.ans[3].text = Body_ReferencedCaps
    /\ GuidancePrinted
    /\ last.res.status = 1
=============================================================================
